---- MODULE Spec2Model ----
(***************************************************************************)
(* Lyric-to-visual synchronization engine of MusicVideosAutomate.           *)
(*                                                                         *)
(* Times are integers.  In the consolidator, the segmenter and the grouper *)
(* one unit is one second; in the shot-list assembler one unit is 0.1 s.   *)
(* Strings are sequences of characters (one-character strings), so that    *)
(* joining, stripping, prefix/suffix and substring tests are computed.     *)
(***************************************************************************)
EXTENDS Integers, Sequences, FiniteSets, TLC

VARIABLES
    \* ---- consolidate_clips.consolidate_phrase_groups ----
    phrase_groups,     \* the input list; its dicts are shared with the clips
    input_groups,      \* value of phrase_groups when the call started
    config,            \* consolidation config
    consolidated,      \* the list `consolidated`
    current_clip,      \* the dict `current_clip` (NoClip before it exists)
    cons_i,            \* loop index i of `for i in range(1, len(...))` (0-based)
    cons_pc,           \* "start" | "loop" | "done"
    \* ---- PhraseGrouper.parse_into_phrases ----
    aligned_words,     \* the input word list
    gap_threshold,     \* parameter gap_threshold
    phrases,           \* the local list `phrases`
    parse_log,         \* the strategies run so far, in order
    parse_result,      \* the returned list (meaningful once parse_pc is "done")
    parse_pc,          \* "start" | "fallback1" | "fallback2" | "return" | "done"
    \* ---- PhraseGrouper.group_phrases_by_topic ----
    grp_phrases,       \* the input phrase list
    oracle_response,   \* what the subprocess call produced
    grp_result,        \* the returned list, when a list is returned
    grp_return,        \* "pending" | "list" | "None": what the call returned
    grp_pc,            \* "start" | "oracle" | "done"
    \* ---- build_format_media_plan.build_synchronized_shot_list ----
    matched_groups,    \* parameter matched_groups
    segment_start,     \* parameter segment_start
    segment_end,       \* parameter segment_end
    segment_groups,    \* the local list segment_groups
    lyric_shots,       \* the list `shots` as it is after the loop (line 223)
    shots,             \* the list `shots`; the return value once shot_pc is "done"
    shot_pc,           \* "start" | "gapfill" | "done"
    \* ---- SemanticMatcher ----
    recent_videos,     \* self.recent_videos
    keyword_boost,     \* self.keyword_boost
    available_media,   \* the media pool the matcher is called with
    m_matched,         \* the local list matched_groups (topic and video_url of each entry)
    m_last,            \* the latest loop iteration of a direct call: its group, base
                       \* scores and choice (not recorded for the calls of the plan)
    m_returned,        \* what the latest call returned: "matched" list or its "input"
    m_pc,              \* "idle" (between calls) | "loop"
    \* ---- VisualRanker.rank_media ----
    rank_candidates,   \* research_data['media_suggestions']
    key_facts,         \* research_data['key_facts']
    pending,           \* candidates whose thumbnail download has not completed
    images,            \* the list images (what each downloaded thumbnail shows)
    valid_candidates,  \* the list valid_candidates (positions in rank_candidates)
    failed_candidates, \* the list failed_candidates (positions in rank_candidates)
    rank_returned,     \* the returned list (meaningful once rank_pc is "done")
    rank_pc,           \* "start" | "downloading" | "done"
    \* ---- build_format_media_plan.match_clips_to_phrase_groups ----
    cm_groups,         \* parameter phrase_groups
    available_clips,   \* parameter available_clips
    cm_matched,        \* the local list matched_groups
    used_clip_indices, \* the local set used_clip_indices (0-based)
    cm_idx,            \* loop index idx (0-based) of the next group
    cm_pc,             \* "loop" | "done"
    \* ---- 5_assemble_video.create_synchronized_plan ----
    \* (its phrase_groups and consolidation config are phrase_groups and
    \* config above, its matcher is the SemanticMatcher above)
    sync_config,           \* parameter sync_config (enabled is clip_consolidation.enabled)
    target_audio_duration, \* parameter target_audio_duration (0 stands for None)
    plan_i,                \* position of the loop over clips / matched groups
    plan_matched,          \* matched_groups of the phrase-level branch
    plan_shots,            \* the list `shots`
    plan_calls,            \* the match_videos_to_groups calls made, in order
    plan,                  \* the returned dict `plan`
    plan_outcome,          \* "running" | "returned" | "raised"
    plan_pc,               \* position in the function
    \* ---- SunoLyricsSync.fetch_aligned_lyrics ----
    api_key,           \* self.api_key is set (truthy)
    max_retries,       \* self.max_retries
    attempt,           \* loop variable attempt: attempts finished so far
    posted,            \* outcomes of the requests.post calls made, in order
    fetch_result,      \* the returned value
    fetch_outcome,     \* "running" | "returned" | "raised"
    fetch_pc,          \* "start" | "loop" | "done"
    \* ---- PhraseGrouper._split_long_groups ----
    sl_phrases,        \* parameter phrases
    sl_result,         \* the returned list
    sl_pc              \* "call" | "done"

consVars == <<phrase_groups, input_groups, config, consolidated, current_clip, cons_i, cons_pc>>

parseVars == <<aligned_words, gap_threshold, phrases, parse_log, parse_result, parse_pc>>

grpVars == <<grp_phrases, oracle_response, grp_result, grp_return, grp_pc>>

shotVars == <<matched_groups, segment_start, segment_end, segment_groups, lyric_shots,
              shots, shot_pc>>

matchVars == <<recent_videos, keyword_boost, available_media, m_matched, m_last,
               m_returned, m_pc>>

rankVars == <<rank_candidates, key_facts, pending, images, valid_candidates, failed_candidates,
              rank_returned, rank_pc>>

clipMatchVars == <<cm_groups, available_clips, cm_matched, used_clip_indices, cm_idx, cm_pc>>

planVars == <<sync_config, target_audio_duration, plan_i, plan_matched, plan_shots,
              plan_calls, plan, plan_outcome, plan_pc>>

fetchVars == <<api_key, max_retries, attempt, posted, fetch_result, fetch_outcome, fetch_pc>>

splitVars == <<sl_phrases, sl_result, sl_pc>>

vars == <<consVars, parseVars, grpVars, shotVars, matchVars, rankVars, clipMatchVars,
          planVars, fetchVars, splitVars>>

\* what each component leaves alone
nonConsVars == <<parseVars, grpVars, shotVars, matchVars, rankVars, clipMatchVars, planVars,
    fetchVars, splitVars>>
nonParseVars == <<consVars, grpVars, shotVars, matchVars, rankVars, clipMatchVars, planVars,
    fetchVars, splitVars>>
nonGrpVars == <<consVars, parseVars, shotVars, matchVars, rankVars, clipMatchVars, planVars,
    fetchVars, splitVars>>
nonShotVars == <<consVars, parseVars, grpVars, matchVars, rankVars, clipMatchVars, planVars,
    fetchVars, splitVars>>
nonMatchVars == <<consVars, parseVars, grpVars, shotVars, rankVars, clipMatchVars, planVars,
    fetchVars, splitVars>>
nonRankVars == <<consVars, parseVars, grpVars, shotVars, matchVars, clipMatchVars, planVars,
    fetchVars, splitVars>>
nonClipMatchVars == <<consVars, parseVars, grpVars, shotVars, matchVars, rankVars, planVars,
    fetchVars, splitVars>>
nonFetchVars == <<consVars, parseVars, grpVars, shotVars, matchVars, rankVars, clipMatchVars,
    planVars, splitVars>>
nonSplitVars == <<consVars, parseVars, grpVars, shotVars, matchVars, rankVars, clipMatchVars,
    planVars, fetchVars>>
\* create_synchronized_plan works on the groups, the clips and the matcher
nonPlanVars == <<parseVars, grpVars, shotVars, rankVars, clipMatchVars, fetchVars, splitVars>>

(***************************************************************************)
(* Bounds of the model.                                                    *)
(***************************************************************************)
MaxGroups == 3      \* longest TopicGroup sequence given to the consolidator
MaxDur == 3         \* longest single TopicGroup, seconds
MaxGap == 1         \* longest silence between adjacent TopicGroups, seconds
MaxWords == 4       \* longest word list given to the segmenter
MaxWordDur == 1     \* longest word, tenths of a second
MaxPhrases == 3     \* longest phrase list given to the grouper
MaxPhraseDur == 2   \* longest phrase, seconds
MaxRespGroups == 2  \* most groups in one oracle response
MaxIndices == 2     \* most phrase indices in one group of a response
MaxSegments == 3    \* longest matched-segment list given to the assembler
MaxSegDur == 2      \* longest matched segment, tenths of a second
MaxVideos == 2      \* largest media pool given to the matcher
MaxClips == 2       \* longest clip list of one match_videos_to_groups call
MaxCandidates == 3
MaxFacts == 2
MaxSplitPhrases == 2 \* longest phrase list given to _split_long_groups
MaxSplitWords == 3  \* most words in the text of one of those phrases

(***************************************************************************)
(* Generic helpers.                                                        *)
(***************************************************************************)
Range(s) == {s[i] : i \in 1..Len(s)}

Last(s) == s[Len(s)]

NoClip == [clip_id |-> 0]

(***************************************************************************)
(* A component that is not running.                                        *)
(***************************************************************************)
ConsIdle ==
    /\ phrase_groups = <<>>
    /\ input_groups = <<>>
    /\ config = [target_clip_duration |-> 0]
    /\ consolidated = <<>>
    /\ current_clip = NoClip
    /\ cons_i = 0
    /\ cons_pc = "idle"

ParseIdle ==
    /\ aligned_words = <<>>
    /\ gap_threshold = 0
    /\ phrases = <<>>
    /\ parse_log = <<>>
    /\ parse_result = <<>>
    /\ parse_pc = "idle"

NoResponse == [kind |-> "none", groups |-> <<>>]

GrpIdle ==
    /\ grp_phrases = <<>>
    /\ oracle_response = NoResponse
    /\ grp_result = <<>>
    /\ grp_return = "pending"
    /\ grp_pc = "idle"

ShotIdle ==
    /\ matched_groups = <<>>
    /\ segment_start = 0
    /\ segment_end = 0
    /\ segment_groups = <<>>
    /\ lyric_shots = <<>>
    /\ shots = <<>>
    /\ shot_pc = "idle"

NoIteration ==
    [valid |-> FALSE, topic |-> "", key_terms |-> <<>>, base |-> <<>>, window |-> <<>>,
     selected |-> 0, best_score |-> 0, allow_reuse |-> FALSE]

MatchIdle ==
    /\ recent_videos = <<>>
    /\ keyword_boost = 0
    /\ available_media = <<>>
    /\ m_matched = <<>>
    /\ m_last = NoIteration
    /\ m_returned = "nothing"
    /\ m_pc = "off"

RankIdle ==
    /\ rank_candidates = <<>>
    /\ key_facts = <<>>
    /\ pending = {}
    /\ images = <<>>
    /\ valid_candidates = <<>>
    /\ failed_candidates = <<>>
    /\ rank_returned = <<>>
    /\ rank_pc = "idle"

ClipMatchIdle ==
    /\ cm_groups = <<>>
    /\ available_clips = <<>>
    /\ cm_matched = <<>>
    /\ used_clip_indices = {}
    /\ cm_idx = 0
    /\ cm_pc = "idle"

NoPlan == [total_shots |-> -1]

PlanIdle ==
    /\ sync_config = [enabled |-> FALSE]
    /\ target_audio_duration = 0
    /\ plan_i = 0
    /\ plan_matched = <<>>
    /\ plan_shots = <<>>
    /\ plan_calls = <<>>
    /\ plan = NoPlan
    /\ plan_outcome = "running"
    /\ plan_pc = "idle"

\* the function has not returned a value
NoData == "none"

FetchIdle ==
    /\ api_key = FALSE
    /\ max_retries = 0
    /\ attempt = 0
    /\ posted = <<>>
    /\ fetch_result = NoData
    /\ fetch_outcome = "running"
    /\ fetch_pc = "idle"

SplitIdle ==
    /\ sl_phrases = <<>>
    /\ sl_result = <<>>
    /\ sl_pc = "idle"

(***************************************************************************)
(* Clip consolidator.                                                      *)
(***************************************************************************)
\* key_terms of one input group; a clip accumulates <<"a", "b">> by merging
KeyTermLists == {<<>>, <<"a">>, <<"b">>}

GroupShapes == [gap : 0..MaxGap, dur : 1..MaxDur, key_terms : KeyTermLists]

\* start_time of the i-th group built from the shapes sh
RECURSIVE ShapeStart(_, _)
ShapeStart(sh, i) ==
    IF i = 1 THEN sh[1].gap
    ELSE ShapeStart(sh, i - 1) + sh[i - 1].dur + sh[i].gap

\* A TopicGroup as phrase_grouper builds it: duration = end_time - start_time.
\* The topic label of the i-th group is unique to it.
MakeGroup(sh, i) ==
    [group_id   |-> i,
     topic      |-> <<"topic", i>>,
     start_time |-> ShapeStart(sh, i),
     end_time   |-> ShapeStart(sh, i) + sh[i].dur,
     duration   |-> sh[i].dur,
     key_terms  |-> sh[i].key_terms]

\* semantic_coherence_threshold as a fraction num/den
Configs ==
    {c \in [target_clip_duration : {2, 3},
            min_clip_duration : {1, 3},
            max_clip_duration : {2, 4},
            semantic_coherence_threshold : {[num |-> 1, den |-> 2], [num |-> 1, den |-> 1]}] :
        /\ c.target_clip_duration <= c.max_clip_duration
        /\ c.min_clip_duration <= c.max_clip_duration}

\* Variant of the similarity that rates two empty term sets as identical
calculate_topic_similarity_empty_alike(terms1_list, terms2_list) ==
    LET terms1 == Range(terms1_list)
        terms2 == Range(terms2_list)
    IN  IF terms1 = {} /\ terms2 = {} THEN <<1, 1>>
        ELSE IF terms1 = {} \/ terms2 = {} THEN <<0, 1>>
        ELSE <<Cardinality(terms1 \cap terms2), Cardinality(terms1 \cup terms2)>>

\* calculate_topic_similarity: Jaccard ratio as the pair <<intersection, union>>;
\* <<0, 1>> (that is 0.0) when either term set is empty
calculate_topic_similarity(terms1_list, terms2_list) ==
    LET terms1 == Range(terms1_list)
        terms2 == Range(terms2_list)
    IN  IF terms1 = {} \/ terms2 = {} THEN <<0, 1>>
        ELSE <<Cardinality(terms1 \cap terms2), Cardinality(terms1 \cup terms2)>>

\* similarity >= coherence_threshold on fractions
SimAtLeast(sim, thr) == sim[1] * thr.den >= thr.num * sim[2]

\* current_clip["key_terms"] is the very list object of the clip's first group
ClipKeyTerms(clip, groups) == groups[clip.kt_owner].key_terms

\* Variant of the merge decision that forgets the max-duration cap
should_merge_nocap(clip, group, groups, cfg) ==
    LET current_duration == clip.duration
        similarity == calculate_topic_similarity(ClipKeyTerms(clip, groups), group.key_terms)
    IN  \/ (current_duration < cfg.target_clip_duration
            /\ SimAtLeast(similarity, cfg.semantic_coherence_threshold))
        \/ current_duration < cfg.min_clip_duration

\* Variant of the merge decision without the forced merge below the minimum
should_merge_noforce(clip, group, groups, cfg) ==
    LET current_duration == clip.duration
        potential_duration == group.end_time - clip.start_time
        similarity == calculate_topic_similarity(ClipKeyTerms(clip, groups), group.key_terms)
    IN  /\ (current_duration < cfg.target_clip_duration
            /\ SimAtLeast(similarity, cfg.semantic_coherence_threshold))
        /\ potential_duration <= cfg.max_clip_duration

\* Variant of the merge decision that merges up to and including the target
should_merge_le(clip, group, groups, cfg) ==
    LET current_duration == clip.duration
        potential_duration == group.end_time - clip.start_time
        similarity == calculate_topic_similarity(ClipKeyTerms(clip, groups), group.key_terms)
    IN  /\ \/ (current_duration <= cfg.target_clip_duration
               /\ SimAtLeast(similarity, cfg.semantic_coherence_threshold))
           \/ current_duration < cfg.min_clip_duration
        /\ potential_duration <= cfg.max_clip_duration

should_merge(clip, group, groups, cfg) ==
    LET current_duration == clip.duration
        potential_duration == group.end_time - clip.start_time
        similarity == calculate_topic_similarity(ClipKeyTerms(clip, groups), group.key_terms)
    IN  /\ \/ (current_duration < cfg.target_clip_duration
               /\ SimAtLeast(similarity, cfg.semantic_coherence_threshold))
           \/ current_duration < cfg.min_clip_duration
        /\ potential_duration <= cfg.max_clip_duration

\* a fresh clip dict seeded with the group at position idx (1-based)
NewClip(id, idx, groups) ==
    [clip_id       |-> id,
     phrase_groups |-> <<idx>>,
     start_time    |-> groups[idx].start_time,
     end_time      |-> groups[idx].end_time,
     duration      |-> groups[idx].duration,
     topics        |-> <<groups[idx].topic>>,
     kt_owner      |-> idx]

\* `for term in group key_terms: if term not in list: list.append(term)`
RECURSIVE AddUnique(_, _)
AddUnique(list, terms) ==
    IF terms = <<>> THEN list
    ELSE AddUnique(IF Head(terms) \in Range(list) THEN list ELSE Append(list, Head(terms)),
                   Tail(terms))

InitConsolidate ==
    /\ \E n \in 0..MaxGroups : \E sh \in [1..n -> GroupShapes] :
          phrase_groups = [i \in 1..n |-> MakeGroup(sh, i)]
    /\ input_groups = phrase_groups
    /\ config \in Configs
    /\ consolidated = <<>>
    /\ current_clip = NoClip
    /\ cons_i = 0
    /\ cons_pc = "start"
    /\ ParseIdle
    /\ GrpIdle
    /\ ShotIdle
    /\ MatchIdle
    /\ RankIdle
    /\ ClipMatchIdle
    /\ PlanIdle
    /\ FetchIdle
    /\ SplitIdle

\* lines 44-61: empty input returns []; otherwise seed current_clip
ConsolidateStart ==
    /\ cons_pc = "start"
    /\ IF phrase_groups = <<>>
       THEN /\ cons_pc' = "done"
            /\ UNCHANGED <<current_clip, cons_i>>
       ELSE /\ current_clip' = NewClip(1, 1, phrase_groups)
            /\ cons_i' = 1
            /\ cons_pc' = "loop"
    /\ UNCHANGED <<phrase_groups, input_groups, config, consolidated>>
    /\ UNCHANGED nonConsVars

\* lines 63-107: one iteration of the loop, on phrase_groups[cons_i] (0-based)
ConsolidateStep ==
    /\ cons_pc = "loop"
    /\ cons_i < Len(phrase_groups)
    /\ LET group == phrase_groups[cons_i + 1]
       IN  IF should_merge(current_clip, group, phrase_groups, config)
           THEN /\ current_clip' =
                      [current_clip EXCEPT
                          !.phrase_groups = Append(@, cons_i + 1),
                          !.end_time = group.end_time,
                          !.duration = group.end_time - current_clip.start_time,
                          !.topics = Append(@, group.topic)]
                /\ phrase_groups' =
                      [phrase_groups EXCEPT
                          ![current_clip.kt_owner].key_terms = AddUnique(@, group.key_terms)]
                /\ UNCHANGED consolidated
           ELSE /\ consolidated' = Append(consolidated, current_clip)
                /\ current_clip' = NewClip(Len(consolidated) + 2, cons_i + 1, phrase_groups)
                /\ UNCHANGED phrase_groups
    /\ cons_i' = cons_i + 1
    /\ UNCHANGED <<input_groups, config, cons_pc>>
    /\ UNCHANGED nonConsVars

\* Variant of the end of the call that returns without the clip in progress
ConsolidateFinish_drop_last ==
    /\ cons_pc = "loop"
    /\ cons_i = Len(phrase_groups)
    /\ cons_pc' = "done"
    /\ UNCHANGED <<phrase_groups, input_groups, config, consolidated, current_clip, cons_i>>
    /\ UNCHANGED nonConsVars

\* lines 109-112: the final clip is appended and the list returned
ConsolidateFinish ==
    /\ cons_pc = "loop"
    /\ cons_i = Len(phrase_groups)
    /\ consolidated' = Append(consolidated, current_clip)
    /\ cons_pc' = "done"
    /\ UNCHANGED <<phrase_groups, input_groups, config, current_clip, cons_i>>
    /\ UNCHANGED nonConsVars

NextConsolidate ==
    \/ ConsolidateStart
    \/ ConsolidateStep
    \/ ConsolidateFinish

SpecConsolidate == InitConsolidate /\ [][NextConsolidate]_vars

\* the key_terms of a returned clip
ClipTerms(k) == ClipKeyTerms(consolidated[k], phrase_groups)

\* position in the input of the first group of the k-th returned clip
FirstGroupOf(k) == Head(consolidated[k].phrase_groups)

(* C1: every clip returned by consolidate_phrase_groups has
   0 <= duration <= max_clip_duration, the terminal clip included. *)
C1_AllClipsWithinMax ==
    cons_pc = "done" =>
        \A k \in 1..Len(consolidated) :
            /\ consolidated[k].duration >= 0
            /\ consolidated[k].duration <= config.max_clip_duration

(* C1 as amended: every returned clip has duration >= 0; a clip made of two
   or more groups has duration <= max_clip_duration; a clip made of a single
   group has exactly that group's duration, whatever the maximum is. *)
C1_MergedClipsWithinMax ==
    cons_pc = "done" =>
        \A k \in 1..Len(consolidated) :
            /\ consolidated[k].duration >= 0
            /\ Len(consolidated[k].phrase_groups) >= 2 =>
                   consolidated[k].duration <= config.max_clip_duration
            /\ Len(consolidated[k].phrase_groups) = 1 =>
                   consolidated[k].duration = input_groups[FirstGroupOf(k)].duration

C1_Witness ==
    /\ cons_pc = "done"
    /\ \E k \in 1..Len(consolidated) :
          /\ Len(consolidated[k].phrase_groups) >= 2
          /\ consolidated[k].duration = config.max_clip_duration
    /\ \E k \in 1..Len(consolidated) :
          /\ Len(consolidated[k].phrase_groups) = 1
          /\ consolidated[k].duration > config.max_clip_duration

(* C7: in the returned list every clip other than the last one has
   duration >= min_clip_duration. *)
C7_OnlyLastClipShort ==
    cons_pc = "done" =>
        \A k \in 1..(Len(consolidated) - 1) :
            consolidated[k].duration >= config.min_clip_duration

(* C7 as amended: a clip other than the last one has duration below
   min_clip_duration only if merging the group that follows it would have
   exceeded the maximum, that is (that group's end_time - the clip's
   start_time) > max_clip_duration. *)
C7_ShortOnlyWhenCapped ==
    cons_pc = "done" =>
        \A k \in 1..(Len(consolidated) - 1) :
            \/ consolidated[k].duration >= config.min_clip_duration
            \/ input_groups[FirstGroupOf(k + 1)].end_time - consolidated[k].start_time
                   > config.max_clip_duration

C7_Witness ==
    /\ cons_pc = "done"
    /\ Len(consolidated) >= 2
    /\ consolidated[1].duration < config.min_clip_duration
    /\ Len(consolidated[1].phrase_groups) >= 2

\* every group lasts exactly the target and adjacent groups have similarity 1.0
AlreadyCoherent ==
    /\ Len(input_groups) >= 1
    /\ \A i \in 1..Len(input_groups) :
          input_groups[i].duration = config.target_clip_duration
    /\ \A i \in 1..(Len(input_groups) - 1) :
          LET sim == calculate_topic_similarity(input_groups[i].key_terms,
                                                input_groups[i + 1].key_terms)
          IN  sim[1] = sim[2]

\* the output is one clip per input group, in order, with the group's timing
OneClipPerGroup ==
    /\ Len(consolidated) = Len(input_groups)
    /\ \A k \in 1..Len(consolidated) :
          /\ consolidated[k].phrase_groups = <<k>>
          /\ consolidated[k].start_time = input_groups[k].start_time
          /\ consolidated[k].end_time = input_groups[k].end_time
          /\ consolidated[k].duration = input_groups[k].duration

(* C9: consolidating groups that all last target_clip_duration and have
   similarity 1.0 between neighbours returns one clip per group, unchanged. *)
C9_CoherentInputUnchanged ==
    (cons_pc = "done" /\ AlreadyCoherent) => OneClipPerGroup

(* C9 as amended: the same, provided min_clip_duration <= target_clip_duration
   (a minimum above the target forces merges of target-length groups). *)
C9_CoherentInputUnchangedMinLeTarget ==
    (cons_pc = "done" /\ AlreadyCoherent
        /\ config.min_clip_duration <= config.target_clip_duration) => OneClipPerGroup

C9_Witness ==
    /\ cons_pc = "done"
    /\ AlreadyCoherent
    /\ config.min_clip_duration <= config.target_clip_duration
    /\ Len(input_groups) >= 2
    /\ input_groups[2].end_time - input_groups[1].start_time <= config.max_clip_duration

(***************************************************************************)
(* Phrase segmenter (times in tenths of a second).                         *)
(***************************************************************************)
DefaultGapThreshold == 3

Whitespace == {" ", "\t", "\n"}

\* str.rstrip() and str.strip()
RECURSIVE rstrip(_)
rstrip(t) ==
    IF t # <<>> /\ t[Len(t)] \in Whitespace THEN rstrip(SubSeq(t, 1, Len(t) - 1)) ELSE t

RECURSIVE lstrip(_)
lstrip(t) ==
    IF t # <<>> /\ Head(t) \in Whitespace THEN lstrip(Tail(t)) ELSE t

strip(t) == rstrip(lstrip(t))

\* str.startswith(prefix)
startswith(t, prefix) ==
    Len(t) >= Len(prefix) /\ SubSeq(t, 1, Len(prefix)) = prefix

\* str.endswith(tuple of one-character strings)
endswith_any(t, chars) == t # <<>> /\ t[Len(t)] \in chars

structural_markers ==
    { <<"[", "V", "e", "r", "s", "e">>,
      <<"[", "C", "h", "o", "r", "u", "s">>,
      <<"[", "B", "r", "i", "d", "g", "e">>,
      <<"[", "P", "r", "e", "-", "C", "h", "o", "r", "u", "s">>,
      <<"[", "O", "u", "t", "r", "o">>,
      <<"[", "I", "n", "t", "r", "o">> }

\* a plain word, a word ending a clause (with trailing blank), a section marker
WordTexts ==
    { <<"l", "a">>,
      <<"o", "h", ",", " ">>,
      <<"[", "V", "e", "r", "s", "e", "]">> }

\* silence before a word: none, exactly the threshold, just above it
WordGaps == {0, DefaultGapThreshold, DefaultGapThreshold + 1}

WordShapes == [word : WordTexts, gap : WordGaps, dur : 1..MaxWordDur]

RECURSIVE WordStart(_, _)
WordStart(sh, i) ==
    IF i = 1 THEN sh[1].gap
    ELSE WordStart(sh, i - 1) + sh[i - 1].dur + sh[i].gap

MakeWord(sh, i) ==
    [word   |-> sh[i].word,
     startS |-> WordStart(sh, i),
     endS   |-> WordStart(sh, i) + sh[i].dur]

\* " ".join(w["word"] for w in words)
RECURSIVE JoinWords(_)
JoinWords(words) ==
    IF words = <<>> THEN <<>>
    ELSE IF Len(words) = 1 THEN words[1].word
    ELSE words[1].word \o <<" ">> \o JoinWords(Tail(words))

\* Variant of the phrase builder that ends the phrase with its first word
_build_phrase_first_end(words) ==
    [text   |-> JoinWords(words),
     startS |-> words[1].startS,
     endS   |-> words[1].endS]

\* lines 77-84
_build_phrase(words) ==
    [text   |-> JoinWords(words),
     startS |-> words[1].startS,
     endS   |-> words[Len(words)].endS]

\* lines 40-57: the gap-based loop from word i on
RECURSIVE GapLoop(_, _, _, _, _)
GapLoop(words, thr, i, acc, current) ==
    IF i > Len(words) THEN acc
    ELSE LET cur == Append(current, words[i])
         IN  IF i < Len(words)
             THEN IF words[i + 1].startS - words[i].endS > thr
                  THEN GapLoop(words, thr, i + 1, Append(acc, _build_phrase(cur)), <<>>)
                  ELSE GapLoop(words, thr, i + 1, acc, cur)
             ELSE GapLoop(words, thr, i + 1, Append(acc, _build_phrase(cur)), cur)

GapSplit(words, thr) == GapLoop(words, thr, 1, <<>>, <<>>)

SentencePunctuation == {".", "!", "?", ","}

\* lines 91-108
RECURSIVE PunctLoop(_, _, _, _)
PunctLoop(words, i, acc, current) ==
    IF i > Len(words)
    THEN IF current # <<>> THEN Append(acc, _build_phrase(current)) ELSE acc
    ELSE LET cur == Append(current, words[i])
             word_text == rstrip(words[i].word)
         IN  IF endswith_any(word_text, SentencePunctuation) \/ i = Len(words)
             THEN PunctLoop(words, i + 1, Append(acc, _build_phrase(cur)), <<>>)
             ELSE PunctLoop(words, i + 1, acc, cur)

_split_by_punctuation(words) ==
    IF words = <<>> THEN <<>> ELSE PunctLoop(words, 1, <<>>, <<>>)

is_marker(word) ==
    \E marker \in structural_markers : startswith(strip(word.word), marker)

\* lines 115-137
RECURSIVE MarkerLoop(_, _, _, _)
MarkerLoop(words, i, acc, current) ==
    IF i > Len(words) THEN acc
    ELSE LET split == is_marker(words[i]) /\ current # <<>>
             acc1 == IF split THEN Append(acc, _build_phrase(current)) ELSE acc
             cur == IF split THEN <<words[i]>> ELSE Append(current, words[i])
         IN  IF i = Len(words) /\ cur # <<>>
             THEN MarkerLoop(words, i + 1, Append(acc1, _build_phrase(cur)), cur)
             ELSE MarkerLoop(words, i + 1, acc1, cur)

\* Variant of the marker split that forgets the phrase still open at the end
_split_by_structural_markers_notail(words) ==
    IF words = <<>> THEN <<>>
    ELSE LET all == MarkerLoop(words, 1, <<>>, <<>>)
         IN  SubSeq(all, 1, Len(all) - 1)

_split_by_structural_markers(words) ==
    IF words = <<>> THEN <<>> ELSE MarkerLoop(words, 1, <<>>, <<>>)

InitParse ==
    /\ \E n \in 0..MaxWords : \E sh \in [1..n -> WordShapes] :
          aligned_words = [i \in 1..n |-> MakeWord(sh, i)]
    /\ gap_threshold = DefaultGapThreshold
    /\ phrases = <<>>
    /\ parse_log = <<>>
    /\ parse_result = <<>>
    /\ parse_pc = "start"
    /\ ConsIdle
    /\ GrpIdle
    /\ ShotIdle
    /\ MatchIdle
    /\ RankIdle
    /\ ClipMatchIdle
    /\ PlanIdle
    /\ FetchIdle
    /\ SplitIdle

\* lines 36-57: empty input returns []; otherwise the gap-based pass
ParseGapBased ==
    /\ parse_pc = "start"
    /\ IF aligned_words = <<>>
       THEN /\ parse_result' = <<>>
            /\ parse_pc' = "done"
            /\ UNCHANGED <<phrases, parse_log>>
       ELSE /\ phrases' = GapSplit(aligned_words, gap_threshold)
            /\ parse_log' = Append(parse_log, "gap")
            /\ parse_pc' = "fallback1"
            /\ UNCHANGED parse_result
    /\ UNCHANGED <<aligned_words, gap_threshold>>
    /\ UNCHANGED nonParseVars

\* lines 59-62
ParseFallback1 ==
    /\ parse_pc = "fallback1"
    /\ IF Len(phrases) < 3
       THEN /\ phrases' = _split_by_punctuation(aligned_words)
            /\ parse_log' = Append(parse_log, "punctuation")
       ELSE UNCHANGED <<phrases, parse_log>>
    /\ parse_pc' = "fallback2"
    /\ UNCHANGED <<aligned_words, gap_threshold, parse_result>>
    /\ UNCHANGED nonParseVars

\* Variant of the second fallback that runs whatever the phrase count is
ParseFallback2_always ==
    /\ parse_pc = "fallback2"
    /\ phrases' = _split_by_structural_markers(aligned_words)
    /\ parse_log' = Append(parse_log, "markers")
    /\ parse_pc' = "return"
    /\ UNCHANGED <<aligned_words, gap_threshold, parse_result>>
    /\ UNCHANGED nonParseVars

\* lines 64-67
ParseFallback2 ==
    /\ parse_pc = "fallback2"
    /\ IF Len(phrases) < 3
       THEN /\ phrases' = _split_by_structural_markers(aligned_words)
            /\ parse_log' = Append(parse_log, "markers")
       ELSE UNCHANGED <<phrases, parse_log>>
    /\ parse_pc' = "return"
    /\ UNCHANGED <<aligned_words, gap_threshold, parse_result>>
    /\ UNCHANGED nonParseVars

\* lines 69-75
ParseReturn ==
    /\ parse_pc = "return"
    /\ parse_result' = phrases
    /\ parse_pc' = "done"
    /\ UNCHANGED <<aligned_words, gap_threshold, phrases, parse_log>>
    /\ UNCHANGED nonParseVars

NextParse ==
    \/ ParseGapBased
    \/ ParseFallback1
    \/ ParseFallback2
    \/ ParseReturn

SpecParse == InitParse /\ [][NextParse]_vars

\* number of steps the call can still take
ParseRank ==
    CASE parse_pc = "start" -> 4
      [] parse_pc = "fallback1" -> 3
      [] parse_pc = "fallback2" -> 2
      [] parse_pc = "return" -> 1
      [] OTHER -> 0

\* positions i such that the silence between word i and word i+1 exceeds the threshold
GapPositions ==
    {i \in 1..(Len(aligned_words) - 1) :
        aligned_words[i + 1].startS - aligned_words[i].endS > gap_threshold}

NoPunctuation ==
    \A i \in 1..Len(aligned_words) :
        ~endswith_any(rstrip(aligned_words[i].word), SentencePunctuation)

NoMarkers == \A i \in 1..Len(aligned_words) : ~is_marker(aligned_words[i])

(* C4: parse_into_phrases returns the gap-based segmentation: one phrase per
   maximal run of words not separated by a gap above the threshold; with
   exactly one such gap and no punctuation or markers it returns the two
   phrases before and after the gap. *)
C4_GapBasedSegmentation ==
    (parse_pc = "done" /\ aligned_words # <<>>) =>
        /\ Len(parse_result) = Cardinality(GapPositions) + 1
        /\ (Cardinality(GapPositions) = 1 /\ NoPunctuation /\ NoMarkers) =>
              LET g == CHOOSE i \in GapPositions : TRUE
              IN  /\ parse_result[1] = _build_phrase(SubSeq(aligned_words, 1, g))
                  /\ parse_result[2] =
                        _build_phrase(SubSeq(aligned_words, g + 1, Len(aligned_words)))

\* no gap above the threshold, no punctuation, no structural marker
Pathological == GapPositions = {} /\ NoPunctuation /\ NoMarkers

C8_Returned ==
    (parse_pc = "done" /\ aligned_words # <<>>) =>
        /\ Len(parse_result) >= 1
        /\ Pathological =>
              parse_result = <<_build_phrase(aligned_words)>>

(* C8: for every non-empty word list parse_into_phrases terminates (each
   strategy is one pass over the words, the call is always at one of its
   four steps or returned, and every step brings the return closer) and
   returns at least one phrase; for a list with no gap
   above the threshold, no punctuation and no marker it returns exactly one
   phrase spanning all the words. *)
C8_TerminatesWithPhrase ==
    /\ [](C8_Returned
            /\ parse_pc \in {"start", "fallback1", "fallback2", "return", "done"}
            /\ (parse_pc = "done" <=> ParseRank = 0))
    /\ [][ParseRank' < ParseRank]_vars

C8_Witness ==
    /\ parse_pc = "done"
    /\ Len(aligned_words) >= 2
    /\ Pathological
    /\ parse_log = <<"gap", "punctuation", "markers">>
    /\ Len(parse_result) = 1

(***************************************************************************)
(* Topic grouper (times in seconds).                                       *)
(***************************************************************************)
\* the i-th input phrase: phrases follow each other without silence
RECURSIVE PhraseStart(_, _)
PhraseStart(durs, i) ==
    IF i = 1 THEN 0 ELSE PhraseStart(durs, i - 1) + durs[i - 1]

MakePhrase(durs, i) ==
    [text   |-> <<"p", i>>,
     startS |-> PhraseStart(durs, i),
     endS   |-> PhraseStart(durs, i) + durs[i]]

\* sequences over S of length 0..n
SeqsUpTo(S, n) == UNION {[1..k -> S] : k \in 0..n}

\* One group object of the parsed JSON array.  phrase_indices are the
\* integers the oracle wrote: -1 (Python's "last element") up to the first
\* index past the end of a list of n phrases.
ResponseGroups(n) ==
    [phrase_indices : SeqsUpTo(-1..n, MaxIndices),
     has_topic : BOOLEAN]

\* What subprocess.run and the parsing of its stdout can produce:
\*   unavailable  subprocess.run raises (the CLI is not installed)
\*   timeout      subprocess.run raises TimeoutExpired
\*   error_exit   returncode != 0
\*   no_array     stdout has no "[" or no "]"
\*   bad_json     json.loads raises on the bracketed text
\*   json         json.loads returns the list `groups`
OracleResponses(n) ==
    {[kind |-> k, groups |-> <<>>] :
        k \in {"unavailable", "timeout", "error_exit", "no_array", "bad_json"}}
    \cup {[kind |-> "json", groups |-> gs] : gs \in SeqsUpTo(ResponseGroups(n), MaxRespGroups)}

\* Python list indexing phrases[i]: valid for -len <= i < len
ValidIndex(i, n) == -n <= i /\ i < n

\* phrases[i] as a position 1..n in the list
Resolve(i, n) == IF i >= 0 THEN i + 1 ELSE n + i + 1

\* text[:30]
Prefix30(text) == SubSeq(text, 1, IF Len(text) < 30 THEN Len(text) ELSE 30)

\* lines 338-347: the group built from g, or a raised exception
\* (KeyError for a missing topic, IndexError for a bad or missing index)
GroupRaises(g, phr) ==
    \/ \E k \in 1..Len(g.phrase_indices) : ~ValidIndex(g.phrase_indices[k], Len(phr))
    \/ ~g.has_topic
    \/ g.phrase_indices = <<>>

BuildGroup(g, id, phr) ==
    LET group_phrases == [k \in 1..Len(g.phrase_indices) |->
                             Resolve(g.phrase_indices[k], Len(phr))]
    IN  [group_id   |-> id,
         topic      |-> <<"oracle topic", id>>,
         phrases    |-> group_phrases,
         key_terms  |-> <<>>,
         start_time |-> phr[group_phrases[1]].startS,
         end_time   |-> phr[group_phrases[Len(group_phrases)]].endS,
         duration   |-> phr[group_phrases[Len(group_phrases)]].endS
                           - phr[group_phrases[1]].startS]

\* lines 353-365: each phrase is its own group
FallbackGroups(phr) ==
    [i \in 1..Len(phr) |->
        [group_id   |-> i,
         topic      |-> Prefix30(phr[i].text),
         phrases    |-> <<i>>,
         key_terms  |-> <<>>,
         start_time |-> phr[i].startS,
         end_time   |-> phr[i].endS,
         duration   |-> phr[i].endS - phr[i].startS]]

\* lines 315-365: what the call returns for a response
GroupingOutcome(resp, phr) ==
    IF resp.kind \in {"unavailable", "timeout", "error_exit", "bad_json"}
    THEN [ret |-> "list", groups |-> FallbackGroups(phr)]
    ELSE IF resp.kind = "no_array"
    THEN [ret |-> "None", groups |-> <<>>]
    ELSE IF \E j \in 1..Len(resp.groups) : GroupRaises(resp.groups[j], phr)
    THEN [ret |-> "list", groups |-> FallbackGroups(phr)]
    ELSE [ret |-> "list",
          groups |-> [j \in 1..Len(resp.groups) |-> BuildGroup(resp.groups[j], j, phr)]]

InitGroup ==
    /\ \E n \in 0..MaxPhrases : \E durs \in [1..n -> 1..MaxPhraseDur] :
          grp_phrases = [i \in 1..n |-> MakePhrase(durs, i)]
    /\ oracle_response = NoResponse
    /\ grp_result = <<>>
    /\ grp_return = "pending"
    /\ grp_pc = "start"
    /\ ConsIdle
    /\ ParseIdle
    /\ ShotIdle
    /\ MatchIdle
    /\ RankIdle
    /\ ClipMatchIdle
    /\ PlanIdle
    /\ FetchIdle
    /\ SplitIdle

\* lines 285-313: empty input returns []; otherwise the prompt is built
GroupStart ==
    /\ grp_pc = "start"
    /\ IF grp_phrases = <<>>
       THEN /\ grp_return' = "list"
            /\ grp_pc' = "done"
       ELSE /\ grp_pc' = "oracle"
            /\ UNCHANGED grp_return
    /\ UNCHANGED <<grp_phrases, oracle_response, grp_result>>
    /\ UNCHANGED nonGrpVars

\* lines 315-365: the oracle is called once and its response handled
GroupOracleResponse ==
    /\ grp_pc = "oracle"
    /\ \E resp \in OracleResponses(Len(grp_phrases)) :
          /\ oracle_response' = resp
          /\ grp_result' = GroupingOutcome(resp, grp_phrases).groups
          /\ grp_return' = GroupingOutcome(resp, grp_phrases).ret
    /\ grp_pc' = "done"
    /\ UNCHANGED grp_phrases
    /\ UNCHANGED nonGrpVars

NextGroup ==
    \/ GroupStart
    \/ GroupOracleResponse

SpecGroup == InitGroup /\ [][NextGroup]_vars

\* how many times input phrase i occurs in the returned groups
Occurrences(i) ==
    LET n(j) == Cardinality({k \in 1..Len(grp_result[j].phrases) : grp_result[j].phrases[k] = i})
        RECURSIVE Sum(_)
        Sum(j) == IF j = 0 THEN 0 ELSE n(j) + Sum(j - 1)
    IN  Sum(Len(grp_result))

(* C3: whatever the oracle answers, the groups returned by
   group_phrases_by_topic contain every input phrase exactly once. *)
C3_GroupsPartitionPhrases ==
    (grp_pc = "done" /\ grp_return = "list") =>
        \A i \in 1..Len(grp_phrases) : Occurrences(i) = 1

\* the oracle failed, or its output cannot be parsed into groups over the
\* phrase indices 0..len-1
OracleUnusable ==
    \/ oracle_response.kind \in {"unavailable", "timeout", "error_exit", "no_array", "bad_json"}
    \/ /\ oracle_response.kind = "json"
       /\ \E j \in 1..Len(oracle_response.groups) :
             \E k \in 1..Len(oracle_response.groups[j].phrase_indices) :
                oracle_response.groups[j].phrase_indices[k] \notin 0..(Len(grp_phrases) - 1)

(* C5: when the oracle is unavailable, fails, times out or returns output
   that cannot be parsed into groups (no array at all, indices out of
   range), group_phrases_by_topic returns the identity mapping, one group
   per phrase in input order; it always returns a list. *)
C5_FallbackIsIdentity ==
    grp_pc = "done" =>
        /\ grp_return = "list"
        /\ OracleUnusable => grp_result = FallbackGroups(grp_phrases)

(***************************************************************************)
(* Shot-list assembler (times in tenths of a second).                      *)
(***************************************************************************)
\* line 228: a leading gap of more than 0.5 s gets a filler shot
GapTolerance == 5

\* group.get("matched_clip") of a group that has none
NoMatchedClip ==
    [present |-> FALSE, local_path |-> "", media_type |-> "", description |-> <<>>,
     transition |-> ""]

MatchedClips ==
    { [present |-> TRUE, local_path |-> "media/a.mp4", media_type |-> "video",
       description |-> <<"leaf">>, transition |-> "crossfade"],
      [present |-> TRUE, local_path |-> "media/b.jpg", media_type |-> "image",
       description |-> <<"sun">>, transition |-> "cut"] }

\* silence before a segment: none, exactly the tolerance, just above it
SegmentGaps == {0, GapTolerance, GapTolerance + 1}

SegmentShapes ==
    [gap : SegmentGaps, dur : 1..MaxSegDur, matched_clip : MatchedClips \cup {NoMatchedClip}]

RECURSIVE SegStart(_, _)
SegStart(sh, i) ==
    IF i = 1 THEN sh[1].gap
    ELSE SegStart(sh, i - 1) + sh[i - 1].dur + sh[i].gap

\* A matched segment in the new key format (startS/endS/text) or in the old
\* one (start_time/end_time/topic), as match_clips_to_phrase_groups returns it
MakeSegment(sh, i, fmt) ==
    IF fmt = "new"
    THEN [startS |-> SegStart(sh, i), endS |-> SegStart(sh, i) + sh[i].dur,
          text |-> <<"lyric", i>>, matched_clip |-> sh[i].matched_clip,
          match_score |-> 7, group_id |-> i - 1]
    ELSE [start_time |-> SegStart(sh, i), end_time |-> SegStart(sh, i) + sh[i].dur,
          topic |-> <<"lyric", i>>, matched_clip |-> sh[i].matched_clip,
          match_score |-> 7, group_id |-> i - 1]

\* lines 72-89
get_phrase_time(phrase_group, key) ==
    IF key = "start"
    THEN IF "startS" \in DOMAIN phrase_group THEN phrase_group.startS
         ELSE IF "start_time" \in DOMAIN phrase_group THEN phrase_group.start_time
         ELSE 0
    ELSE IF key = "end"
    THEN IF "endS" \in DOMAIN phrase_group THEN phrase_group.endS
         ELSE IF "end_time" \in DOMAIN phrase_group THEN phrase_group.end_time
         ELSE 0
    ELSE 0

Max(a, b) == IF a >= b THEN a ELSE b
Min(a, b) == IF a <= b THEN a ELSE b

\* Variant of the window test that also keeps a segment touching the window
InWindow_touching(g, seg_start, seg_end) ==
    get_phrase_time(g, "start") <= seg_end /\ get_phrase_time(g, "end") >= seg_start

\* lines 180-183
InWindow(g, seg_start, seg_end) ==
    get_phrase_time(g, "start") < seg_end /\ get_phrase_time(g, "end") > seg_start

RECURSIVE FilterToWindow(_, _, _)
FilterToWindow(groups, seg_start, seg_end) ==
    IF groups = <<>> THEN <<>>
    ELSE IF InWindow(Head(groups), seg_start, seg_end)
    THEN <<Head(groups)>> \o FilterToWindow(Tail(groups), seg_start, seg_end)
    ELSE FilterToWindow(Tail(groups), seg_start, seg_end)

\* lines 193-220: the shot of one group
LyricShot(group, number, seg_start, seg_end) ==
    LET clip == group.matched_clip
        lyric_start == Max(get_phrase_time(group, "start"), seg_start)
        lyric_end == Min(get_phrase_time(group, "end"), seg_end)
    IN  [shot_number    |-> number,
         local_path     |-> clip.local_path,
         media_type     |-> clip.media_type,
         description    |-> clip.description,
         lyrics_match   |-> IF "text" \in DOMAIN group THEN group.text
                            ELSE IF "topic" \in DOMAIN group THEN group.topic
                            ELSE <<>>,
         transition     |-> clip.transition,
         start_time     |-> lyric_start - seg_start,
         end_time       |-> lyric_end - seg_start,
         duration       |-> lyric_end - lyric_start,
         phrase_group_id |-> group.group_id,
         absolute_start |-> lyric_start,
         absolute_end   |-> lyric_end,
         match_score    |-> group.match_score]

\* lines 187-223: groups without a clip are skipped, the others numbered 1, 2, ...
RECURSIVE ShotLoop(_, _, _, _)
ShotLoop(groups, acc, seg_start, seg_end) ==
    IF groups = <<>> THEN acc
    ELSE IF ~Head(groups).matched_clip.present
    THEN ShotLoop(Tail(groups), acc, seg_start, seg_end)
    ELSE ShotLoop(Tail(groups),
                  Append(acc, LyricShot(Head(groups), Len(acc) + 1, seg_start, seg_end)),
                  seg_start, seg_end)

\* Variant of the gap test that also fills a gap of exactly the tolerance
NeedsFillerAtTolerance(shot_list) ==
    shot_list # <<>> /\ shot_list[1].start_time >= GapTolerance

\* line 228
NeedsFiller(shot_list) ==
    shot_list # <<>> /\ shot_list[1].start_time > GapTolerance

\* lines 233-238: the clip of the first group of the window that has one
RECURSIVE FirstClip(_)
FirstClip(groups) ==
    IF groups = <<>> THEN NoMatchedClip
    ELSE IF Head(groups).matched_clip.present THEN Head(groups).matched_clip
    ELSE FirstClip(Tail(groups))

\* lines 242-259
FillerShot(first_clip, gap_duration, seg_start) ==
    [shot_number    |-> 0,
     local_path     |-> first_clip.local_path,
     media_type     |-> first_clip.media_type,
     description    |-> first_clip.description \o <<" (instrumental intro)">>,
     lyrics_match   |-> <<"[Instrumental]">>,
     transition     |-> "fade",
     start_time     |-> 0,
     end_time       |-> gap_duration,
     duration       |-> gap_duration,
     phrase_group_id |-> -1,
     absolute_start |-> seg_start,
     absolute_end   |-> seg_start + gap_duration,
     match_score    |-> 0]

\* Variant of the renumbering that leaves the shot numbers as they are
Renumber_keep(shot_list) == shot_list

\* lines 262-264
Renumber(shot_list) ==
    [i \in 1..Len(shot_list) |-> [shot_list[i] EXCEPT !.shot_number = i]]

InitShots ==
    /\ \E n \in 0..MaxSegments : \E sh \in [1..n -> SegmentShapes] : \E fmt \in {"new", "old"} :
          matched_groups = [i \in 1..n |-> MakeSegment(sh, i, fmt)]
    /\ segment_start \in {0, 1}
    /\ segment_end \in {2, GapTolerance + 2, 4 * GapTolerance}
    /\ segment_groups = <<>>
    /\ lyric_shots = <<>>
    /\ shots = <<>>
    /\ shot_pc = "start"
    /\ ConsIdle
    /\ ParseIdle
    /\ GrpIdle
    /\ MatchIdle
    /\ RankIdle
    /\ ClipMatchIdle
    /\ PlanIdle
    /\ FetchIdle
    /\ SplitIdle

\* lines 176-223: the window filter and the loop over its groups
BuildLyricShots ==
    /\ shot_pc = "start"
    /\ segment_groups' = FilterToWindow(matched_groups, segment_start, segment_end)
    /\ shots' = ShotLoop(segment_groups', <<>>, segment_start, segment_end)
    /\ lyric_shots' = shots'
    /\ shot_pc' = "gapfill"
    /\ UNCHANGED <<matched_groups, segment_start, segment_end>>
    /\ UNCHANGED nonShotVars

\* lines 225-268: gap filling and return
FillLeadingGap ==
    /\ shot_pc = "gapfill"
    /\ IF NeedsFiller(shots) /\ FirstClip(segment_groups).present
       THEN shots' = Renumber(<<FillerShot(FirstClip(segment_groups), shots[1].start_time,
                                           segment_start)>> \o shots)
       ELSE UNCHANGED shots
    /\ shot_pc' = "done"
    /\ UNCHANGED <<matched_groups, segment_start, segment_end, segment_groups, lyric_shots>>
    /\ UNCHANGED nonShotVars

NextShots ==
    \/ BuildLyricShots
    \/ FillLeadingGap

SpecShots == InitShots /\ [][NextShots]_vars

(* C2: in the returned shot list every shot ends exactly where the next one
   starts, and a non-empty list starts at time 0. *)
C2_ShotsContiguousFromZero ==
    shot_pc = "done" =>
        /\ \A i \in 1..(Len(shots) - 1) : shots[i].end_time = shots[i + 1].start_time
        /\ shots # <<>> => shots[1].start_time = 0

\* the timing of a shot
Timing(shot) == <<shot.start_time, shot.end_time, shot.duration>>

(* C10: when the first lyric shot starts more than 0.5 s into the window,
   the returned list is one filler shot ([0, first start], media of the first
   matched segment of the window, label "[Instrumental]", transition fade,
   match_score 0) followed by the lyric shots with unchanged timing; when it
   starts at most 0.5 s into the window the lyric shots are returned with no
   filler. *)
C10_LeadingFiller ==
    (shot_pc = "done" /\ lyric_shots # <<>>) =>
        IF lyric_shots[1].start_time > GapTolerance
        THEN /\ Len(shots) = Len(lyric_shots) + 1
             /\ shots[1].start_time = 0
             /\ shots[1].end_time = lyric_shots[1].start_time
             /\ shots[1].local_path = FirstClip(segment_groups).local_path
             /\ shots[1].local_path = lyric_shots[1].local_path
             /\ shots[1].lyrics_match = <<"[Instrumental]">>
             /\ shots[1].transition = "fade"
             /\ shots[1].match_score = 0
             /\ \A i \in 1..Len(lyric_shots) :
                   /\ Timing(shots[i + 1]) = Timing(lyric_shots[i])
                   /\ shots[i + 1].lyrics_match = lyric_shots[i].lyrics_match
                   /\ shots[i + 1].lyrics_match # <<"[Instrumental]">>
        ELSE shots = lyric_shots

C10_Witness ==
    /\ shot_pc = "done"
    /\ Len(lyric_shots) >= 2
    /\ lyric_shots[1].start_time > GapTolerance
    /\ shots[1].lyrics_match = <<"[Instrumental]">>
    /\ Len(segment_groups) < Len(matched_groups)

(***************************************************************************)
(* Semantic matcher (scores in tenths).                                    *)
(***************************************************************************)
\* line 96: the recent-use window keeps the last 3 urls
RecentLimit == 3

\* line 79: 0.1 per occurrence in the window
PenaltyPerUse == 1

\* str.lower() on the letters the model uses
ToLower(c) ==
    CASE c = "A" -> "a"
      [] c = "T" -> "t"
      [] c = "P" -> "p"
      [] c = "M" -> "m"
      [] OTHER -> c

lower(t) == [i \in 1..Len(t) |-> ToLower(t[i])]

\* needle in hay
IsSubstring(needle, hay) ==
    \E i \in 0..(Len(hay) - Len(needle)) : SubSeq(hay, i + 1, i + Len(needle)) = needle

TermAtp == <<"A", "T", "P">>
TermMotor == <<"m", "o", "t", "o", "r">>
TermAtpMotor == <<"a", "t", "p", " ", "m", "o", "t", "o", "r">>

ClipKeyTermLists == {<<>>, <<TermAtp, TermMotor>>, <<TermAtpMotor>>}

ClipTopics == {"atp synthase", "leaf"}

MatchGroups == [topic : ClipTopics, key_terms : ClipKeyTermLists]

\* enhanced_description (empty when absent) and description of a candidate
VideoTexts ==
    { [enhanced_description |-> <<>>,
       description |-> <<"l", "e", "a", "f">>],
      [enhanced_description |-> <<>>,
       description |-> <<"A", "t", "p", " ", "M", "o", "t", "o", "r">>],
      [enhanced_description |-> <<"a", "t", "p">>,
       description |-> <<"m", "o", "t", "o", "r">>] }

MakeVideo(texts, i) ==
    [url |-> <<"video", i>>,
     description |-> texts[i].description,
     enhanced_description |-> texts[i].enhanced_description]

\* cosine similarity of the clip text and a candidate text, in tenths
BaseScores == {4, 6}

KeywordBoosts == {2}

RECURSIVE Pow(_, _)
Pow(b, k) == IF k = 0 THEN 1 ELSE b * Pow(b, k - 1)

\* list.count(x)
Count(list, x) == Cardinality({i \in 1..Len(list) : list[i] = x})

\* lines 67-73: how many key terms multiply the boost
KeywordHits(key_terms, video) ==
    LET video_desc_lower ==
            lower(video.enhanced_description \o <<" ">> \o video.description)
    IN  Cardinality({j \in 1..Len(key_terms) :
                        IsSubstring(lower(key_terms[j]), video_desc_lower)})

\* lines 64-80
FinalScore(key_terms, video, base_score, boost, window) ==
    base_score * Pow(boost, KeywordHits(key_terms, video))
        - PenaltyPerUse * Count(window, video.url)

\* lines 85-86: stable descending sort, first element
BestIndex(scores) ==
    CHOOSE i \in 1..Len(scores) :
        /\ \A j \in 1..Len(scores) : scores[j] <= scores[i]
        /\ \A j \in 1..(i - 1) : scores[j] < scores[i]

\* Variant of the tracking that drops the newest entry of a full window
Track_pop_newest(window, url) ==
    LET w == Append(window, url)
    IN  IF Len(w) > RecentLimit THEN SubSeq(w, 1, RecentLimit) ELSE w

\* lines 95-97
Track(window, url) ==
    LET w == Append(window, url)
    IN  IF Len(w) > RecentLimit THEN Tail(w) ELSE w

\* Variant of the continuation test that never allows reuse
allow_reuse_never(matched, group) == FALSE

\* lines 89-91: allow_reuse, given the local list matched_groups
allow_reuse_for(matched, group) ==
    matched # <<>> /\ Last(matched).topic = group.topic

InitMatch ==
    /\ recent_videos = <<>>
    /\ keyword_boost \in KeywordBoosts
    /\ \E n \in 0..MaxVideos : \E texts \in [1..n -> VideoTexts] :
          available_media = [i \in 1..n |-> MakeVideo(texts, i)]
    /\ m_matched = <<>>
    /\ m_last = NoIteration
    /\ m_returned = "nothing"
    /\ m_pc = "idle"
    /\ ConsIdle
    /\ ParseIdle
    /\ GrpIdle
    /\ ShotIdle
    /\ RankIdle
    /\ ClipMatchIdle
    /\ PlanIdle
    /\ FetchIdle
    /\ SplitIdle

\* Variant of the call entry that starts every call from an empty window
MatchCall_fresh_window ==
    /\ m_pc = "idle"
    /\ m_matched' = <<>>
    /\ m_last' = NoIteration
    /\ recent_videos' = <<>>
    /\ IF available_media = <<>>
       THEN /\ m_returned' = "input"
            /\ UNCHANGED m_pc
       ELSE /\ m_returned' = "nothing"
            /\ m_pc' = "loop"
    /\ UNCHANGED <<keyword_boost, available_media>>
    /\ UNCHANGED nonMatchVars

\* lines 43-54: a call on a non-empty clip list; with no media the list is
\* returned as it was given
MatchCall ==
    /\ m_pc = "idle"
    /\ m_matched' = <<>>
    /\ m_last' = NoIteration
    /\ IF available_media = <<>>
       THEN /\ m_returned' = "input"
            /\ UNCHANGED m_pc
       ELSE /\ m_returned' = "nothing"
            /\ m_pc' = "loop"
    /\ UNCHANGED <<recent_videos, keyword_boost, available_media>>
    /\ UNCHANGED nonMatchVars

\* lines 56-105: one iteration of the loop, on the next clip of the list
MatchGroup ==
    /\ m_pc = "loop"
    /\ Len(m_matched) < MaxClips
    /\ \E group \in MatchGroups : \E base \in [1..Len(available_media) -> BaseScores] :
          \* (the bound variables hold the values of the locals scores, best and allow_reuse)
          \E scores \in {[i \in 1..Len(available_media) |->
                            FinalScore(group.key_terms, available_media[i], base[i],
                                       keyword_boost, recent_videos)]} :
          \E best \in {BestIndex(scores)} :
          \E allow_reuse \in {allow_reuse_for(m_matched, group)} :
              /\ recent_videos' = IF allow_reuse THEN recent_videos
                                  ELSE Track(recent_videos, available_media[best].url)
              /\ m_matched' = Append(m_matched,
                                     [topic |-> group.topic,
                                      video_url |-> available_media[best].url])
              /\ m_last' = [valid |-> TRUE, topic |-> group.topic,
                            key_terms |-> group.key_terms, base |-> base,
                            window |-> recent_videos, selected |-> best,
                            best_score |-> scores[best], allow_reuse |-> allow_reuse]
    /\ UNCHANGED <<keyword_boost, available_media, m_returned, m_pc>>
    /\ UNCHANGED nonMatchVars

\* line 109 (and line 44 for an empty clip list)
MatchReturn ==
    /\ m_pc = "loop"
    /\ m_returned' = IF m_matched = <<>> THEN "input" ELSE "matched"
    /\ m_pc' = "idle"
    /\ UNCHANGED <<recent_videos, keyword_boost, available_media, m_matched, m_last>>
    /\ UNCHANGED nonMatchVars

NextMatch ==
    \/ MatchCall
    \/ MatchGroup
    \/ MatchReturn

SpecMatch == InitMatch /\ [][NextMatch]_vars

\* the number of key terms that occur, case-insensitively, as a substring of
\* the description or of the enhanced description
TermsInEitherDescription(key_terms, video) ==
    Cardinality({j \in 1..Len(key_terms) :
                    \/ IsSubstring(lower(key_terms[j]), lower(video.description))
                    \/ IsSubstring(lower(key_terms[j]), lower(video.enhanced_description))})

\* base_similarity x keyword_boost^k - 0.1 x c
StatedScore(i) ==
    m_last.base[i] * Pow(keyword_boost, TermsInEitherDescription(m_last.key_terms,
                                                                 available_media[i]))
        - PenaltyPerUse * Count(m_last.window, available_media[i].url)

(* C6: for each clip the selected candidate is the one with the highest
   base_similarity x keyword_boost^k - 0.1 x c (k = key terms occurring in
   the description or the enhanced description, c = occurrences of its url
   in the recent-use window), the earliest winning a tie; with an empty
   window and boost 2, a candidate matching two terms at 0.4 beats one
   matching none at 0.6. *)
C6_SelectsHighestBoostedScore ==
    m_last.valid =>
        /\ \A j \in 1..Len(available_media) : StatedScore(j) <= StatedScore(m_last.selected)
        /\ \A j \in 1..(m_last.selected - 1) : StatedScore(j) < StatedScore(m_last.selected)

\* the last RecentLimit entries of a list
KeepLast(list) ==
    SubSeq(list, IF Len(list) > RecentLimit THEN Len(list) - RecentLimit + 1 ELSE 1, Len(list))

\* a step of the loop that matched one more clip
MatchedOneMore == m_pc = "loop" /\ Len(m_matched') = Len(m_matched) + 1

(* C11: after any selections, over any number of clips and calls, the
   recent-use window holds at most 3 entries; a tracked selection is added at
   the end and, when it is the fourth, the oldest entry is the one evicted,
   so the window is the last 3 tracked selections in tracking order. *)
C11_WindowKeepsLastThree ==
    [][/\ Len(recent_videos') <= RecentLimit
       /\ \/ recent_videos' = recent_videos
          \/ \E i \in 1..Len(available_media) :
                recent_videos' = KeepLast(recent_videos \o <<available_media[i].url>>)
       /\ (MatchedOneMore /\ ~m_last'.allow_reuse) =>
              recent_videos' = KeepLast(recent_videos \o <<Last(m_matched').video_url>>)]_vars

C11_Witness ==
    /\ m_last.valid
    /\ ~m_last.allow_reuse
    /\ Len(m_last.window) = RecentLimit
    /\ recent_videos = Tail(m_last.window) \o <<Last(m_matched).video_url>>
    /\ recent_videos # m_last.window

(* C12: within one call, a clip whose topic label equals the topic label of
   the immediately preceding matched clip leaves the recent-use window
   unchanged; for every other clip the url of the selected candidate is
   appended to the window. *)
C12_SameTopicNotTracked ==
    [][MatchedOneMore =>
          IF m_matched # <<>> /\ Last(m_matched).topic = Last(m_matched').topic
          THEN recent_videos' = recent_videos
          ELSE recent_videos' = KeepLast(recent_videos \o <<Last(m_matched').video_url>>)]_vars

C12_Witness ==
    /\ Len(m_matched) = 2
    /\ m_matched[1].topic = m_matched[2].topic
    /\ m_last.valid
    /\ recent_videos = m_last.window
    /\ recent_videos # <<>>

(* C19: every call of match_videos_to_groups starts from an empty window:
   the first clip of a call is scored against an empty recent-use window. *)
C19_EachCallStartsEmpty ==
    (m_last.valid /\ Len(m_matched) = 1) => m_last.window = <<>>

(* C19 as amended: the window belongs to the matcher object: it is left as
   it is when a call starts and when a call returns, and the score of the
   candidate selected for a clip is reduced by 0.1 for each occurrence of
   its url in the window carried over from the earlier calls. *)
C19_WindowCarriedAcrossCalls ==
    [][/\ (m_pc = "idle" \/ m_pc' = "idle") => recent_videos' = recent_videos
       /\ MatchedOneMore =>
             /\ m_last'.window = recent_videos
             /\ m_last'.best_score =
                   m_last'.base[m_last'.selected]
                       * Pow(keyword_boost,
                             KeywordHits(m_last'.key_terms, available_media[m_last'.selected]))
                   - PenaltyPerUse
                       * Count(recent_videos, available_media[m_last'.selected].url)]_vars

\* the candidate a clip would get if the window were empty
UnpenalisedBest ==
    BestIndex([i \in 1..Len(available_media) |->
                  FinalScore(m_last.key_terms, available_media[i], m_last.base[i],
                             keyword_boost, <<>>)])

C19_Witness ==
    /\ m_last.valid
    /\ Len(m_matched) = 1
    /\ m_last.window # <<>>
    /\ m_last.selected # UnpenalisedBest

(***************************************************************************)
(* Clip consolidator: the input list and the shape of the result.          *)
(***************************************************************************)
(* C16: consolidate_phrase_groups does not mutate its input: after the call
   every input group, its key_terms list included, equals its value before
   the call, whatever merges were performed. *)
C16_InputNotMutated ==
    cons_pc = "done" => phrase_groups = input_groups

\* the input positions of the groups of the clips k..Len(clips), concatenated
RECURSIVE GroupsOfClips(_, _)
GroupsOfClips(clips, k) ==
    IF k > Len(clips) THEN <<>>
    ELSE clips[k].phrase_groups \o GroupsOfClips(clips, k + 1)

(* C20: the returned clips partition the input into runs of adjacent
   groups: their phrase_groups, concatenated in output order, are the input
   sequence (every group in exactly one clip, each clip non-empty), clip ids
   are 1..n in order, and the start_time and end_time of a clip are those of
   its first and its last group. *)
C20_ClipsPartitionInput ==
    cons_pc = "done" =>
        /\ GroupsOfClips(consolidated, 1) = [i \in 1..Len(input_groups) |-> i]
        /\ \A k \in 1..Len(consolidated) :
              /\ consolidated[k].clip_id = k
              /\ consolidated[k].phrase_groups # <<>>
              /\ consolidated[k].start_time
                    = input_groups[Head(consolidated[k].phrase_groups)].start_time
              /\ consolidated[k].end_time
                    = input_groups[Last(consolidated[k].phrase_groups)].end_time

C20_Witness ==
    /\ cons_pc = "done"
    /\ Len(consolidated) = 2
    /\ Len(consolidated[1].phrase_groups) = 2
    /\ Len(consolidated[2].phrase_groups) = 1

(***************************************************************************)
(* Topic grouper: which phrases a group is made of.                        *)
(***************************************************************************)
(* C17: whatever the oracle answers, every group returned by
   group_phrases_by_topic is built from phrases whose input indices are
   consecutive and increasing (i, i+1, ..., j). *)
C17_GroupsAreConsecutiveRuns ==
    (grp_pc = "done" /\ grp_return = "list") =>
        \A j \in 1..Len(grp_result) :
            \A k \in 1..(Len(grp_result[j].phrases) - 1) :
                grp_result[j].phrases[k + 1] = grp_result[j].phrases[k] + 1

(***************************************************************************)
(* Visual ranker (similarities in tenths).                                 *)
(***************************************************************************)
\* __init__: lambda_param = 0.7
LambdaTenths == 7

\* what a thumbnail shows and what a key fact is about: the CLIP embedding of
\* an image or of a text is determined by it
Subjects == {"leaf", "sun"}

\* cosine_similarity of an image embedding and a fact embedding
Relevance(image, fact) == IF image = fact THEN 9 ELSE 7

\* cosine_similarity of two image embeddings
ImageSimilarity(image1, image2) == IF image1 = image2 THEN 10 ELSE 3

MakeCandidate(shown, i) == [url |-> <<"thumb", i>>, thumbnail |-> shown[i]]

\* np.mean of the similarities of an image to every fact, as a fraction
MeanRelevance(image, facts) ==
    LET RECURSIVE Sum(_)
        Sum(k) == IF k = 0 THEN 0 ELSE Relevance(image, facts[k]) + Sum(k - 1)
    IN  [num |-> Sum(Len(facts)), den |-> Len(facts)]

\* max over a non-empty set of integers
MaxOf(S) == CHOOSE x \in S : \A y \in S : y <= x

\* Variant of the MMR score without the diversity term
MMRScore_relevance_only(idx, fact, selected_indices, candidates) ==
    LambdaTenths * Relevance(candidates[idx].thumbnail, fact) * 10

\* lines 198-211: the MMR score (x 100) of candidate idx for a fact
MMRScore(idx, fact, selected_indices, candidates) ==
    LET relevance == Relevance(candidates[idx].thumbnail, fact)
        max_similarity ==
            IF selected_indices # <<>>
            THEN MaxOf({ImageSimilarity(candidates[idx].thumbnail,
                                        candidates[selected_indices[k]].thumbnail) :
                          k \in 1..Len(selected_indices)}) * 10
            ELSE 0
    IN  LambdaTenths * relevance * 10 - (10 - LambdaTenths) * max_similarity

\* lines 193-215: the first of remaining_indices with the highest score
BestRemaining(fact, selected_indices, remaining_indices, candidates) ==
    LET score(k) == MMRScore(remaining_indices[k], fact, selected_indices, candidates)
        best == CHOOSE k \in 1..Len(remaining_indices) :
                    /\ \A j \in 1..Len(remaining_indices) : score(j) <= score(k)
                    /\ \A j \in 1..(k - 1) : score(j) < score(k)
    IN  best

\* list without its k-th element
RemoveAt(list, k) == SubSeq(list, 1, k - 1) \o SubSeq(list, k + 1, Len(list))

\* lines 191-227: selected_indices after the loop over the facts, followed
\* by the remaining indices in their order
RECURSIVE SelectLoop(_, _, _, _, _)
SelectLoop(fact_idx, selected_indices, remaining_indices, facts, candidates) ==
    IF fact_idx > Min(Len(facts), Len(candidates))
    THEN selected_indices \o remaining_indices
    ELSE LET k == BestRemaining(facts[fact_idx], selected_indices, remaining_indices,
                                candidates)
         IN  SelectLoop(fact_idx + 1, Append(selected_indices, remaining_indices[k]),
                        RemoveAt(remaining_indices, k), facts, candidates)

\* _calculate_mmr_scores: copies of the candidates with rank and visual_score
_calculate_mmr_scores(facts, candidates) ==
    LET selected_indices ==
            SelectLoop(1, <<>>, [k \in 1..Len(candidates) |-> k], facts, candidates)
    IN  [r \in 1..Len(candidates) |->
            [url          |-> candidates[selected_indices[r]].url,
             thumbnail    |-> candidates[selected_indices[r]].thumbnail,
             rank         |-> r,
             visual_score |-> MeanRelevance(candidates[selected_indices[r]].thumbnail,
                                            facts)]]

\* lines 282-285: the failed candidates get the next ranks and score 0.0
RECURSIVE AppendFailed(_, _)
AppendFailed(ranked, failed) ==
    IF failed = <<>> THEN ranked
    ELSE AppendFailed(Append(ranked,
                             [url          |-> Head(failed).url,
                              thumbnail    |-> Head(failed).thumbnail,
                              rank         |-> Len(ranked) + 1,
                              visual_score |-> [num |-> 0, den |-> 1]]),
                      Tail(failed))

InitRank ==
    /\ \E n \in 0..MaxCandidates : \E shown \in [1..n -> Subjects] :
          rank_candidates = [i \in 1..n |-> MakeCandidate(shown, i)]
    /\ key_facts \in SeqsUpTo(Subjects, MaxFacts)
    /\ pending = {}
    /\ images = <<>>
    /\ valid_candidates = <<>>
    /\ failed_candidates = <<>>
    /\ rank_returned = <<>>
    /\ rank_pc = "start"
    /\ ConsIdle
    /\ ParseIdle
    /\ GrpIdle
    /\ ShotIdle
    /\ MatchIdle
    /\ ClipMatchIdle
    /\ PlanIdle
    /\ FetchIdle
    /\ SplitIdle

\* lines 252-266 and 123-127: the early returns, or one download submitted
\* per candidate
RankStart ==
    /\ rank_pc = "start"
    /\ IF rank_candidates = <<>>
       THEN /\ rank_returned' = <<>>
            /\ rank_pc' = "done"
            /\ UNCHANGED pending
       ELSE IF key_facts = <<>>
       THEN /\ rank_returned' = rank_candidates
            /\ rank_pc' = "done"
            /\ UNCHANGED pending
       ELSE /\ pending' = 1..Len(rank_candidates)
            /\ rank_pc' = "downloading"
            /\ UNCHANGED rank_returned
    /\ UNCHANGED <<rank_candidates, key_facts, images, valid_candidates, failed_candidates>>
    /\ UNCHANGED nonRankVars

\* lines 129-135: the next completed download produced an image
ThumbnailFetched ==
    /\ rank_pc = "downloading"
    /\ \E c \in pending :
          /\ pending' = pending \ {c}
          /\ images' = Append(images, rank_candidates[c].thumbnail)
          /\ valid_candidates' = Append(valid_candidates, c)
    /\ UNCHANGED <<rank_candidates, key_facts, failed_candidates, rank_returned, rank_pc>>
    /\ UNCHANGED nonRankVars

\* Variant of a failed download that does not keep the candidate
ThumbnailFailed_dropped ==
    /\ rank_pc = "downloading"
    /\ \E c \in pending : pending' = pending \ {c}
    /\ UNCHANGED <<rank_candidates, key_facts, images, valid_candidates, failed_candidates,
                   rank_returned, rank_pc>>
    /\ UNCHANGED nonRankVars

\* lines 136-141: the next completed download returned None or raised
ThumbnailFailed ==
    /\ rank_pc = "downloading"
    /\ \E c \in pending :
          /\ pending' = pending \ {c}
          /\ failed_candidates' = Append(failed_candidates, c)
    /\ UNCHANGED <<rank_candidates, key_facts, images, valid_candidates, rank_returned, rank_pc>>
    /\ UNCHANGED nonRankVars

\* lines 268-287: all downloads are done
RankFinish ==
    /\ rank_pc = "downloading"
    /\ pending = {}
    /\ rank_returned' =
          IF images = <<>>
          THEN rank_candidates
          ELSE AppendFailed(
                   _calculate_mmr_scores(key_facts,
                       [k \in 1..Len(valid_candidates) |->
                           [url       |-> rank_candidates[valid_candidates[k]].url,
                            thumbnail |-> images[k]]]),
                   [k \in 1..Len(failed_candidates) |-> rank_candidates[failed_candidates[k]]])
    /\ rank_pc' = "done"
    /\ UNCHANGED <<rank_candidates, key_facts, pending, images, valid_candidates,
                   failed_candidates>>
    /\ UNCHANGED nonRankVars

NextRank ==
    \/ RankStart
    \/ ThumbnailFetched
    \/ ThumbnailFailed
    \/ RankFinish

SpecRank == InitRank /\ [][NextRank]_vars

\* position in the returned list of the candidate with this url, 0 if absent
PositionOf(url) ==
    IF \E k \in 1..Len(rank_returned) : rank_returned[k].url = url
    THEN CHOOSE k \in 1..Len(rank_returned) : rank_returned[k].url = url
    ELSE 0

(* C13: rank_media never drops a candidate: the result holds every input
   candidate exactly once, with ranks 1..N in list order, and every candidate
   whose thumbnail could not be fetched comes after all candidates ranked by
   embedding and carries visual_score 0. *)
C13_NoCandidateDropped ==
    rank_pc = "done" =>
        /\ Len(rank_returned) = Len(rank_candidates)
        /\ \A i \in 1..Len(rank_candidates) : PositionOf(rank_candidates[i].url) # 0
        /\ \A k \in 1..Len(rank_returned) :
              /\ "rank" \in DOMAIN rank_returned[k]
              /\ rank_returned[k].rank = k
        /\ \A f \in 1..Len(failed_candidates) :
              LET pos == PositionOf(rank_candidates[failed_candidates[f]].url)
              IN  /\ "visual_score" \in DOMAIN rank_returned[pos]
                  /\ rank_returned[pos].visual_score.num = 0
                  /\ \A v \in 1..Len(valid_candidates) :
                        PositionOf(rank_candidates[valid_candidates[v]].url) < pos

(***************************************************************************)
(* Synchronized plan (times in seconds, scores in tenths).                 *)
(***************************************************************************)
PlanKeyTermLists == {<<>>, <<TermAtp>>}

PlanGroupShapes == [gap : {0}, dur : {1, 2}, key_terms : PlanKeyTermLists]

\* the clip_consolidation settings of sync_config
PlanConfigs ==
    {c \in Configs : /\ c.target_clip_duration = 2
                     /\ c.max_clip_duration = 4
                     /\ c.semantic_coherence_threshold = [num |-> 1, den |-> 2]}

SyncConfigs ==
    [enabled : BOOLEAN, min_phrase_duration : {2}, keyword_boost_multiplier : KeywordBoosts]

\* an audio duration longer than any group sequence of the model; 0 is None
TargetAudioDurations == {0, 2 * MaxGroups + 3}

\* the descriptions of the approved media, alternating along the list
PlanMediaTexts ==
    << [enhanced_description |-> <<>>,
        description |-> <<"l", "e", "a", "f">>],
       [enhanced_description |-> <<>>,
        description |-> <<"A", "t", "p", " ", "M", "o", "t", "o", "r">>] >>

\* local_path of a media dict; <<>> stands for a dict without the key
NoLocalPath == <<>>

MakeMedia(has_path, i) ==
    [url |-> <<"video", i>>,
     description |-> PlanMediaTexts[((i - 1) % 2) + 1].description,
     enhanced_description |-> PlanMediaTexts[((i - 1) % 2) + 1].enhanced_description,
     local_path |-> IF has_path[i] THEN <<"media", i>> ELSE NoLocalPath]

\* matched.get("video_url") of a group that match_videos_to_groups returned
\* as it was given
NoVideoUrl == <<>>

\* ' / '.join(clip['topics'])
RECURSIVE JoinTopics(_)
JoinTopics(topics) ==
    IF Len(topics) <= 1 THEN topics
    ELSE <<Head(topics), " / ">> \o JoinTopics(Tail(topics))

\* lines 308-315: the temporary group of a consolidated clip
TempGroup(clip, groups) ==
    [topic      |-> JoinTopics(clip.topics),
     key_terms  |-> ClipKeyTerms(clip, groups),
     start_time |-> clip.start_time,
     end_time   |-> clip.end_time,
     duration   |-> clip.duration]

\* lines 331 and 363: next((m for m in approved_media if m.get("url") == url), None)
\* as a position in the list, 0 for None
FindMedia(media, url) ==
    IF \E k \in 1..Len(media) : media[k].url = url
    THEN CHOOSE k \in 1..Len(media) :
            /\ media[k].url = url
            /\ \A j \in 1..(k - 1) : media[j].url # url
    ELSE 0

\* Variant of the media test that only looks for the media object
NoLocalMedia_unfound_only(media, url) == FindMedia(media, url) = 0

\* lines 333 and 365: not media or "local_path" not in media
NoLocalMedia(media, url) ==
    FindMedia(media, url) = 0 \/ media[FindMedia(media, url)].local_path = NoLocalPath

\* lines 337-351: the shot of a consolidated clip
ClipShot(clip, groups, media_item, matched, number) ==
    [shot_number   |-> number,
     local_path    |-> media_item.local_path,
     description   |-> JoinTopics(clip.topics),
     start_time    |-> clip.start_time,
     end_time      |-> clip.end_time,
     duration      |-> clip.duration,
     key_terms     |-> ClipKeyTerms(clip, groups),
     match_score   |-> matched.match_score,
     transition    |-> "crossfade",
     phrase_groups |-> clip.phrase_groups]

\* lines 369-383: the shot of a matched phrase group
GroupShot(group, idx, media_item, matched, cfg, number) ==
    [shot_number   |-> number,
     local_path    |-> media_item.local_path,
     description   |-> media_item.description,
     start_time    |-> group.start_time,
     end_time      |-> group.end_time,
     duration      |-> Max(group.duration, cfg.min_phrase_duration),
     key_terms     |-> group.key_terms,
     match_score   |-> matched.match_score,
     transition    |-> "crossfade",
     phrase_groups |-> <<idx>>]

\* lines 386-404: fade at both ends, the last shot extended to the audio
FinishShots(shot_list, target) ==
    IF shot_list = <<>> THEN shot_list
    ELSE LET faded == [[shot_list EXCEPT ![1].transition = "fade"]
                          EXCEPT ![Len(shot_list)].transition = "fade"]
             total_duration == faded[Len(faded)].end_time
         IN  IF target # 0 /\ total_duration < target
             THEN [faded EXCEPT ![Len(faded)].end_time = target,
                                ![Len(faded)].duration = target - faded[Len(faded)].start_time]
             ELSE faded

\* A TopicGroup of the plan: the groups of a song carry their own topic
\* labels, or the grouper gave them all the same label
MakePlanGroup(sh, i, same_label) ==
    [MakeGroup(sh, i) EXCEPT !.topic = IF same_label THEN <<"topic", 0>> ELSE @]

InitPlan ==
    /\ \E n \in 0..MaxGroups : \E sh \in [1..n -> PlanGroupShapes] :
       \E same_label \in BOOLEAN :
          phrase_groups = [i \in 1..n |-> MakePlanGroup(sh, i, same_label)]
    /\ input_groups = phrase_groups
    /\ config \in PlanConfigs
    /\ consolidated = <<>>
    /\ current_clip = NoClip
    /\ cons_i = 0
    /\ cons_pc = "idle"
    /\ \E n \in 0..MaxVideos : \E has_path \in [1..n -> BOOLEAN] :
          available_media = [i \in 1..n |-> MakeMedia(has_path, i)]
    /\ recent_videos = <<>>
    /\ keyword_boost = 0
    /\ m_matched = <<>>
    /\ m_last = NoIteration
    /\ m_returned = "nothing"
    /\ m_pc = "off"
    /\ sync_config \in SyncConfigs
    /\ target_audio_duration \in TargetAudioDurations
    /\ plan_i = 0
    /\ plan_matched = <<>>
    /\ plan_shots = <<>>
    /\ plan_calls = <<>>
    /\ plan = NoPlan
    /\ plan_outcome = "running"
    /\ plan_pc = "start"
    /\ ParseIdle
    /\ GrpIdle
    /\ ShotIdle
    /\ RankIdle
    /\ ClipMatchIdle
    /\ FetchIdle
    /\ SplitIdle

\* lines 288-294: with consolidation enabled, consolidate_phrase_groups is
\* called on phrase_groups (ConsolidateStart, ConsolidateStep and
\* ConsolidateFinish run it)
PlanConsolidate ==
    /\ plan_pc = "start"
    /\ sync_config.enabled
    /\ cons_pc' = "start"
    /\ plan_pc' = "consolidating"
    /\ UNCHANGED <<phrase_groups, input_groups, config, consolidated, current_clip, cons_i>>
    /\ UNCHANGED matchVars
    /\ UNCHANGED <<sync_config, target_audio_duration, plan_i, plan_matched, plan_shots,
                   plan_calls, plan, plan_outcome>>
    /\ UNCHANGED nonPlanVars

\* lines 296-301: the log line divides by len(consolidated_clips); then the
\* matcher is constructed
PlanConsolidated ==
    /\ plan_pc = "consolidating"
    /\ cons_pc = "done"
    /\ IF consolidated = <<>>
       THEN /\ plan_outcome' = "raised"
            /\ plan_pc' = "done"
            /\ UNCHANGED matchVars
       ELSE /\ recent_videos' = <<>>
            /\ keyword_boost' = sync_config.keyword_boost_multiplier
            /\ m_pc' = "idle"
            /\ plan_pc' = "clips"
            /\ UNCHANGED <<available_media, m_matched, m_last, m_returned, plan_outcome>>
    /\ UNCHANGED consVars
    /\ UNCHANGED <<sync_config, target_audio_duration, plan_i, plan_matched, plan_shots,
                   plan_calls, plan>>
    /\ UNCHANGED nonPlanVars

\* Variant of the list a call starts with: the one the previous call left
FreshMatched_carried == m_matched

\* semantic_matcher.py line 54: matched_groups = [] at the start of each call
FreshMatched == <<>>

\* lines 302-352: one consolidated clip: its temporary group is matched in a
\* call of its own, and a shot is appended unless the media has no file
PlanMatchClip ==
    /\ plan_pc = "clips"
    /\ plan_i < Len(consolidated)
    /\ LET clip == consolidated[plan_i + 1]
           group == TempGroup(clip, phrase_groups)
       IN  IF available_media = <<>>
           THEN \* match_videos_to_groups returns [temp_group] as given (line 44)
                /\ m_matched' = <<>>
                /\ m_returned' = "input"
                /\ plan_calls' = Append(plan_calls,
                                        [groups |-> <<plan_i + 1>>, selected |-> <<NoVideoUrl>>])
                /\ UNCHANGED <<recent_videos, plan_shots>>
           ELSE \E base \in [1..Len(available_media) -> BaseScores] :
                \E scores \in {[i \in 1..Len(available_media) |->
                                  FinalScore(group.key_terms, available_media[i], base[i],
                                             keyword_boost, recent_videos)]} :
                \E best \in {BestIndex(scores)} :
                \E allow_reuse \in {allow_reuse_for(FreshMatched, group)} :
                \E matched \in {[video_url |-> available_media[best].url,
                                 match_score |-> scores[best]]} :
                    /\ recent_videos' = IF allow_reuse THEN recent_videos
                                        ELSE Track(recent_videos, matched.video_url)
                    /\ m_matched' = <<[topic |-> group.topic, video_url |-> matched.video_url]>>
                    /\ m_returned' = "matched"
                    /\ plan_calls' = Append(plan_calls,
                                            [groups |-> <<plan_i + 1>>,
                                             selected |-> <<matched.video_url>>])
                    /\ plan_shots' =
                          IF NoLocalMedia(available_media, matched.video_url)
                          THEN plan_shots
                          ELSE Append(plan_shots,
                                      ClipShot(clip, phrase_groups,
                                               available_media[FindMedia(available_media,
                                                                         matched.video_url)],
                                               matched, Len(plan_shots) + 1))
    /\ plan_i' = plan_i + 1
    /\ UNCHANGED consVars
    /\ UNCHANGED <<keyword_boost, available_media, m_last, m_pc>>
    /\ UNCHANGED <<sync_config, target_audio_duration, plan_matched, plan, plan_outcome,
                   plan_pc>>
    /\ UNCHANGED nonPlanVars

\* lines 354-359 and 43-54 of the matcher: without consolidation the matcher
\* is constructed and called once on all the groups; with no group or no
\* media it returns the groups as given
PlanMatchGroupsCall ==
    /\ plan_pc = "start"
    /\ ~sync_config.enabled
    /\ recent_videos' = <<>>
    /\ keyword_boost' = sync_config.keyword_boost_multiplier
    /\ m_matched' = <<>>
    /\ plan_calls' = Append(plan_calls,
                            [groups |-> [i \in 1..Len(phrase_groups) |-> i],
                             selected |-> [i \in 1..Len(phrase_groups) |-> NoVideoUrl]])
    /\ IF phrase_groups = <<>> \/ available_media = <<>>
       THEN /\ m_returned' = "input"
            /\ m_pc' = "idle"
            /\ plan_matched' = [i \in 1..Len(phrase_groups) |->
                                   [group |-> i, video_url |-> NoVideoUrl, match_score |-> 0]]
            /\ plan_pc' = "shots"
       ELSE /\ m_returned' = "nothing"
            /\ m_pc' = "loop"
            /\ plan_pc' = "matching"
            /\ UNCHANGED plan_matched
    /\ UNCHANGED consVars
    /\ UNCHANGED <<available_media, m_last>>
    /\ UNCHANGED <<sync_config, target_audio_duration, plan_i, plan_shots, plan, plan_outcome>>
    /\ UNCHANGED nonPlanVars

\* lines 56-105 of the matcher: one iteration of its loop over the groups
PlanMatchGroup ==
    /\ plan_pc = "matching"
    /\ plan_i < Len(phrase_groups)
    /\ LET group == phrase_groups[plan_i + 1]
       IN  \E base \in [1..Len(available_media) -> BaseScores] :
           \E scores \in {[i \in 1..Len(available_media) |->
                             FinalScore(group.key_terms, available_media[i], base[i],
                                        keyword_boost, recent_videos)]} :
           \E best \in {BestIndex(scores)} :
           \E allow_reuse \in {allow_reuse_for(m_matched, group)} :
               /\ recent_videos' = IF allow_reuse THEN recent_videos
                                   ELSE Track(recent_videos, available_media[best].url)
               /\ m_matched' = Append(m_matched,
                                      [topic |-> group.topic,
                                       video_url |-> available_media[best].url])
               /\ plan_matched' = Append(plan_matched,
                                         [group |-> plan_i + 1,
                                          video_url |-> available_media[best].url,
                                          match_score |-> scores[best]])
               /\ plan_calls' = [plan_calls EXCEPT
                                    ![1].selected[plan_i + 1] = available_media[best].url]
    /\ plan_i' = plan_i + 1
    /\ UNCHANGED consVars
    /\ UNCHANGED <<keyword_boost, available_media, m_last, m_returned, m_pc>>
    /\ UNCHANGED <<sync_config, target_audio_duration, plan_shots, plan, plan_outcome, plan_pc>>
    /\ UNCHANGED nonPlanVars

\* line 109 of the matcher: the call returns matched_groups
PlanMatchGroupsReturn ==
    /\ plan_pc = "matching"
    /\ plan_i = Len(phrase_groups)
    /\ m_returned' = "matched"
    /\ m_pc' = "idle"
    /\ plan_i' = 0
    /\ plan_pc' = "shots"
    /\ UNCHANGED consVars
    /\ UNCHANGED <<recent_videos, keyword_boost, available_media, m_matched, m_last>>
    /\ UNCHANGED <<sync_config, target_audio_duration, plan_matched, plan_shots, plan_calls,
                   plan, plan_outcome>>
    /\ UNCHANGED nonPlanVars

\* lines 362-384: one matched group: a shot is appended unless its media has
\* no file
PlanShotFromGroup ==
    /\ plan_pc = "shots"
    /\ plan_i < Len(plan_matched)
    /\ LET matched == plan_matched[plan_i + 1]
       IN  plan_shots' =
              IF NoLocalMedia(available_media, matched.video_url)
              THEN plan_shots
              ELSE Append(plan_shots,
                          GroupShot(phrase_groups[matched.group], matched.group,
                                    available_media[FindMedia(available_media,
                                                              matched.video_url)],
                                    matched, sync_config, Len(plan_shots) + 1))
    /\ plan_i' = plan_i + 1
    /\ UNCHANGED consVars
    /\ UNCHANGED matchVars
    /\ UNCHANGED <<sync_config, target_audio_duration, plan_matched, plan_calls, plan,
                   plan_outcome, plan_pc>>
    /\ UNCHANGED nonPlanVars

\* lines 386-421: transitions, the extension of the last shot, the plan
PlanFinish ==
    /\ \/ plan_pc = "clips" /\ plan_i = Len(consolidated)
       \/ plan_pc = "shots" /\ plan_i = Len(plan_matched)
    /\ plan_shots' = FinishShots(plan_shots, target_audio_duration)
    /\ plan' = [shot_list      |-> plan_shots',
                total_duration |-> IF plan_shots' = <<>> THEN 0
                                   ELSE Last(plan_shots').end_time,
                total_shots    |-> Len(plan_shots'),
                pacing         |-> IF sync_config.enabled THEN "consolidated"
                                   ELSE "synchronized"]
    /\ plan_outcome' = "returned"
    /\ plan_pc' = "done"
    /\ UNCHANGED consVars
    /\ UNCHANGED matchVars
    /\ UNCHANGED <<sync_config, target_audio_duration, plan_i, plan_matched, plan_calls>>
    /\ UNCHANGED nonPlanVars

NextPlan ==
    \/ PlanConsolidate
    \/ ConsolidateStart
    \/ ConsolidateStep
    \/ ConsolidateFinish
    \/ PlanConsolidated
    \/ PlanMatchClip
    \/ PlanMatchGroupsCall
    \/ PlanMatchGroup
    \/ PlanMatchGroupsReturn
    \/ PlanShotFromGroup
    \/ PlanFinish

SpecPlan == InitPlan /\ [][NextPlan]_vars

(* C14: every stage given an empty input returns an empty output without
   raising; for create_synchronized_plan, with consolidation enabled or
   disabled, an empty phrase_groups list gives a plan with an empty shot
   list. *)
C14_EmptyInputEmptyOutput ==
    (plan_pc = "done" /\ input_groups = <<>>) =>
        /\ plan_outcome = "returned"
        /\ plan.shot_list = <<>>

(***************************************************************************)
(* Word-overlap matcher of the format plan builder.  A text is the         *)
(* sequence of its whitespace-separated words.                             *)
(***************************************************************************)
\* line 126: reuse_penalty, in tenths
ReusePenaltyTenths == 3

\* str.lower() on the words the model uses
LowerWord(w) ==
    CASE w = "Leaf" -> "leaf"
      [] w = "Sun" -> "sun"
      [] OTHER -> w

CmTexts == {<<>>, <<"Leaf">>, <<"sun", "leaf">>}

CmGroupShapes == [text : CmTexts, key_terms : {<<>>, <<"sun">>}]

CmClipShapes == [description : {<<"leaf">>, <<"Sun", "rock">>}, lyrics_match : {<<>>}]

MakeCmClip(sh, i) ==
    [local_path |-> <<"clip", i>>,
     description |-> sh[i].description,
     lyrics_match |-> sh[i].lyrics_match]

\* lines 114-118 and 132: set(f"{phrase_text} {key_terms}".lower().split())
SearchWords(group) == {LowerWord(w) : w \in Range(group.text \o group.key_terms)}

\* lines 129 and 133: the words of description and lyrics_match, lowered
ClipWords(clip) == {LowerWord(w) : w \in Range(clip.description \o clip.lyrics_match)}

\* lines 126-136: the score of a clip as the fraction num/den
ClipScore(search_words, clip, clip_idx, used) ==
    LET reuse_penalty == IF clip_idx \in used THEN ReusePenaltyTenths ELSE 0
        overlap == Cardinality(search_words \cap ClipWords(clip))
        total == Cardinality(search_words \cup ClipWords(clip))
    IN  IF total > 0
        THEN [num |-> 10 * overlap - reuse_penalty * total, den |-> 10 * total]
        ELSE [num |-> 0 - reuse_penalty, den |-> 10]

\* a > b on fractions with positive denominators
Greater(a, b) == a.num * b.den > b.num * a.den

\* line 122: best_clip_idx when no clip was chosen
NoClipIdx == -1

\* lines 121-140: best_score and best_clip_idx after the loop over the clips
RECURSIVE ClipLoop(_, _, _, _, _)
ClipLoop(clip_idx, best, search_words, clips, used) ==
    IF clip_idx = Len(clips) THEN best
    ELSE LET score == ClipScore(search_words, clips[clip_idx + 1], clip_idx, used)
         IN  ClipLoop(clip_idx + 1,
                      IF Greater(score, best.best_score)
                      THEN [best_score |-> score, best_clip_idx |-> clip_idx]
                      ELSE best,
                      search_words, clips, used)

InitClipMatch ==
    /\ cm_groups \in SeqsUpTo(CmGroupShapes, MaxSegments)
    /\ \E n \in 0..MaxVideos : \E sh \in [1..n -> CmClipShapes] :
          available_clips = [i \in 1..n |-> MakeCmClip(sh, i)]
    /\ cm_matched = <<>>
    /\ used_clip_indices = {}
    /\ cm_idx = 0
    /\ cm_pc = "loop"
    /\ ConsIdle
    /\ ParseIdle
    /\ GrpIdle
    /\ ShotIdle
    /\ MatchIdle
    /\ RankIdle
    /\ PlanIdle
    /\ FetchIdle
    /\ SplitIdle

\* lines 111-154: one group
ClipMatchGroup ==
    /\ cm_pc = "loop"
    /\ cm_idx < Len(cm_groups)
    /\ LET group == cm_groups[cm_idx + 1]
           best == ClipLoop(0, [best_score |-> [num |-> 0, den |-> 1],
                                best_clip_idx |-> NoClipIdx],
                            SearchWords(group), available_clips, used_clip_indices)
       IN  IF best.best_clip_idx # NoClipIdx
           THEN /\ cm_matched' =
                      Append(cm_matched,
                             [text         |-> group.text,
                              key_terms    |-> group.key_terms,
                              matched_clip |-> available_clips[best.best_clip_idx + 1],
                              match_score  |-> best.best_score,
                              group_id     |-> cm_idx])
                /\ used_clip_indices' = used_clip_indices \cup {best.best_clip_idx}
           ELSE UNCHANGED <<cm_matched, used_clip_indices>>
    /\ cm_idx' = cm_idx + 1
    /\ UNCHANGED <<cm_groups, available_clips, cm_pc>>
    /\ UNCHANGED nonClipMatchVars

\* line 156
ClipMatchReturn ==
    /\ cm_pc = "loop"
    /\ cm_idx = Len(cm_groups)
    /\ cm_pc' = "done"
    /\ UNCHANGED <<cm_groups, available_clips, cm_matched, used_clip_indices, cm_idx>>
    /\ UNCHANGED nonClipMatchVars

NextClipMatch ==
    \/ ClipMatchGroup
    \/ ClipMatchReturn

SpecClipMatch == InitClipMatch /\ [][NextClipMatch]_vars

(***************************************************************************)
(* The three builders of matched sequences and shot lists, one run of one  *)
(* of them per behaviour.                                                  *)
(***************************************************************************)
InitAssembly == InitClipMatch \/ InitShots \/ InitPlan

NextAssembly == NextClipMatch \/ NextShots \/ NextPlan

SpecAssembly == InitAssembly /\ [][NextAssembly]_vars

\* some clip scores above 0 for the group that match_clips_to_phrase_groups
\* looks at next
SomeClipMatches ==
    \E c \in 1..Len(available_clips) :
        Greater(ClipScore(SearchWords(cm_groups[cm_idx + 1]), available_clips[c], c - 1,
                          used_clip_indices),
                [num |-> 0, den |-> 1])

\* the url selected for each segment of the plan (a consolidated clip, or a
\* phrase group when consolidation is off), in segment order
SegmentUrls ==
    IF sync_config.enabled
    THEN [k \in 1..Len(plan_calls) |-> plan_calls[k].selected[1]]
    ELSE plan_calls[1].selected

\* the input groups a segment of the plan is made of
SegmentGroupsOf(k) == IF sync_config.enabled THEN consolidated[k].phrase_groups ELSE <<k>>

\* some approved media has this url and a local file
HasLocalFile(url) ==
    \E k \in 1..Len(available_media) :
        /\ available_media[k].url = url
        /\ available_media[k].local_path # NoLocalPath

\* the segments k..n whose selected media has a local file, in order
RECURSIVE SegmentsWithMedia(_)
SegmentsWithMedia(k) ==
    IF k > Len(SegmentUrls) THEN <<>>
    ELSE IF HasLocalFile(SegmentUrls[k]) THEN <<k>> \o SegmentsWithMedia(k + 1)
    ELSE SegmentsWithMedia(k + 1)

(* C15: a segment for which no candidate is matched, or whose matched
   candidate has no local media, is left out of the matched sequence and
   gets no shot, and the segments after it are still handled: the matched
   sequence of match_clips_to_phrase_groups grows by exactly the groups that
   have a match, in input order, and the shot list of
   create_synchronized_plan is made of exactly the segments whose media has
   a local file, in their original order. *)
C15_UnmatchedSegmentDropped ==
    /\ [][(cm_pc = "loop" /\ cm_idx' = cm_idx + 1) =>
             IF SomeClipMatches
             THEN /\ Len(cm_matched') = Len(cm_matched) + 1
                  /\ SubSeq(cm_matched', 1, Len(cm_matched)) = cm_matched
                  /\ Last(cm_matched').group_id = cm_idx
                  /\ Last(cm_matched').text = cm_groups[cm_idx + 1].text
             ELSE cm_matched' = cm_matched]_vars
    /\ [](cm_pc = "done" => cm_idx = Len(cm_groups))
    /\ [](plan_outcome = "returned" =>
             /\ Len(plan.shot_list) = Len(SegmentsWithMedia(1))
             /\ \A j \in 1..Len(plan.shot_list) :
                   /\ plan.shot_list[j].phrase_groups
                         = SegmentGroupsOf(SegmentsWithMedia(1)[j])
                   /\ plan.shot_list[j].local_path # NoLocalPath)

C15_Witness ==
    /\ plan_outcome = "returned"
    /\ Len(SegmentUrls) = 3
    /\ SegmentsWithMedia(1) = <<1, 3>>
    /\ Len(plan.shot_list) = 2

(* C18: in every shot list returned by build_synchronized_shot_list and by
   create_synchronized_plan the shot numbers are exactly 1, 2, ..., n in
   list order, also when segments were skipped for lack of media and when a
   filler shot was inserted at the front. *)
C18_ShotNumbersConsecutive ==
    /\ shot_pc = "done" => \A k \in 1..Len(shots) : shots[k].shot_number = k
    /\ plan_outcome = "returned" =>
          \A k \in 1..Len(plan.shot_list) : plan.shot_list[k].shot_number = k

C18_Witness ==
    /\ shot_pc = "done"
    /\ Len(shots) >= 3
    /\ shots[1].lyrics_match = <<"[Instrumental]">>
    /\ \E k \in 1..Len(segment_groups) : ~segment_groups[k].matched_clip.present

(***************************************************************************)
(* Suno lyric fetcher.                                                     *)
(***************************************************************************)
MaxRetries == 3     \* largest max_retries given to SunoLyricsSync

\* data.get("data", {}) of the responses the model uses
ResponseData == {"words1", "words2"}

\* what one requests.post call can come to
PostOutcomes ==
    [kind : {"ok"}, data : ResponseData]       \* HTTP 200, body code 200
        \cup [kind : {"api_error"}, data : ResponseData]   \* HTTP 200, other body code
        \cup [kind : {"http_error"}, data : {NoData}]      \* other HTTP status
        \cup [kind : {"exception"}, data : {NoData}]       \* post or json() raises

InitFetch ==
    /\ api_key \in BOOLEAN
    /\ max_retries \in 0..MaxRetries
    /\ attempt = 0
    /\ posted = <<>>
    /\ fetch_result = NoData
    /\ fetch_outcome = "running"
    /\ fetch_pc = "start"
    /\ ConsIdle
    /\ ParseIdle
    /\ GrpIdle
    /\ ShotIdle
    /\ MatchIdle
    /\ RankIdle
    /\ ClipMatchIdle
    /\ PlanIdle
    /\ SplitIdle

\* lines 60-71
FetchStart ==
    /\ fetch_pc = "start"
    /\ IF api_key
       THEN /\ fetch_pc' = "loop"
            /\ UNCHANGED fetch_outcome
       ELSE /\ fetch_pc' = "done"
            /\ fetch_outcome' = "raised"
    /\ UNCHANGED <<api_key, max_retries, attempt, posted, fetch_result>>
    /\ UNCHANGED nonFetchVars

\* The same attempt, going on to the next one after a successful response
FetchAttempt_no_return ==
    /\ fetch_pc = "loop"
    /\ attempt < max_retries
    /\ \E response \in PostOutcomes :
          /\ posted' = Append(posted, response)
          /\ attempt' = attempt + 1
          /\ UNCHANGED <<fetch_result, fetch_outcome, fetch_pc>>
    /\ UNCHANGED <<api_key, max_retries>>
    /\ UNCHANGED nonFetchVars

\* lines 73-96: one pass of the loop, the backoff sleep included
FetchAttempt ==
    /\ fetch_pc = "loop"
    /\ attempt < max_retries
    /\ \E response \in PostOutcomes :
          /\ posted' = Append(posted, response)
          /\ IF response.kind = "ok"
             THEN /\ fetch_result' = response.data
                  /\ fetch_outcome' = "returned"
                  /\ fetch_pc' = "done"
                  /\ UNCHANGED attempt
             ELSE /\ attempt' = attempt + 1
                  /\ UNCHANGED <<fetch_result, fetch_outcome, fetch_pc>>
    /\ UNCHANGED <<api_key, max_retries>>
    /\ UNCHANGED nonFetchVars

\* line 98
FetchGiveUp ==
    /\ fetch_pc = "loop"
    /\ attempt >= max_retries
    /\ fetch_outcome' = "raised"
    /\ fetch_pc' = "done"
    /\ UNCHANGED <<api_key, max_retries, attempt, posted, fetch_result>>
    /\ UNCHANGED nonFetchVars

NextFetch ==
    \/ FetchStart
    \/ FetchAttempt
    \/ FetchGiveUp

SpecFetch == InitFetch /\ [][NextFetch]_vars

(* C21: fetch_aligned_lyrics sends at most max_retries requests; it returns
   the data of the first response with HTTP status 200 and body code 200
   and sends nothing after it; after any other response or an exception it
   tries again; it raises once max_retries attempts have all failed and
   never returns a value without a successful response. *)
C21_RetryUntilFirstSuccess ==
    /\ Len(posted) <= max_retries
    /\ \A k \in 1..(Len(posted) - 1) : posted[k].kind # "ok"
    /\ fetch_outcome = "returned" =>
          /\ posted # <<>>
          /\ Last(posted).kind = "ok"
          /\ fetch_result = Last(posted).data
    /\ (fetch_pc = "done" /\ posted # <<>> /\ Last(posted).kind = "ok") =>
          fetch_outcome = "returned"
    /\ (fetch_outcome = "raised" /\ api_key) =>
          /\ Len(posted) = max_retries
          /\ \A k \in 1..Len(posted) : posted[k].kind # "ok"
    /\ (fetch_pc = "loop" /\ Len(posted) < max_retries) => fetch_outcome = "running"
    /\ fetch_outcome = "running" => fetch_result = NoData

C21_Witness ==
    /\ fetch_outcome = "returned"
    /\ Len(posted) = 3
    /\ posted[1].kind = "http_error"
    /\ posted[2].kind = "exception"
    /\ fetch_result = "words2"

(***************************************************************************)
(* Clip consolidator: the merge decision of one step.                      *)
(***************************************************************************)
\* the group the loop of consolidate_phrase_groups looks at next
NextGroupIn == phrase_groups[cons_i + 1]

\* the key terms accumulated by the clip in progress, and those of the next group
ClipTermSet == Range(ClipKeyTerms(current_clip, phrase_groups))
GroupTermSet == Range(NextGroupIn.key_terms)

\* Jaccard similarity of the two sets >= semantic_coherence_threshold, the
\* similarity being 0 when either set is empty
Coherent ==
    IF ClipTermSet = {} \/ GroupTermSet = {}
    THEN config.semantic_coherence_threshold.num <= 0
    ELSE Cardinality(ClipTermSet \cap GroupTermSet) * config.semantic_coherence_threshold.den
            >= config.semantic_coherence_threshold.num
                  * Cardinality(ClipTermSet \cup GroupTermSet)

MergeExpected ==
    /\ \/ current_clip.duration < config.min_clip_duration
       \/ (current_clip.duration < config.target_clip_duration /\ Coherent)
    /\ NextGroupIn.end_time - current_clip.start_time <= config.max_clip_duration

(* C22: at each step of consolidate_phrase_groups the next group is merged
   into the current clip exactly when (current duration < min_clip_duration,
   or current duration < target_clip_duration and the Jaccard similarity of
   the clip's accumulated key terms and the group's key terms is >= the
   threshold, 0 when either set is empty) and group end - clip start <=
   max_clip_duration; otherwise the current clip is closed and a new clip
   starts with that group.  A clip shorter than the minimum absorbs the next
   group regardless of similarity when the result fits the maximum. *)
C22_MergeDecision ==
    [][(cons_pc = "loop" /\ cons_i' = cons_i + 1) =>
          IF MergeExpected
          THEN /\ consolidated' = consolidated
               /\ current_clip'.clip_id = current_clip.clip_id
               /\ current_clip'.phrase_groups = Append(current_clip.phrase_groups, cons_i + 1)
               /\ current_clip'.start_time = current_clip.start_time
               /\ current_clip'.end_time = NextGroupIn.end_time
               /\ current_clip'.duration = NextGroupIn.end_time - current_clip.start_time
          ELSE /\ consolidated' = Append(consolidated, current_clip)
               /\ current_clip'.phrase_groups = <<cons_i + 1>>
               /\ current_clip'.start_time = NextGroupIn.start_time
               /\ current_clip'.end_time = NextGroupIn.end_time
               /\ current_clip'.duration = NextGroupIn.duration]_vars

\* a returned single clip made of two groups that share no key term, the
\* first shorter than the minimum
C22_Witness ==
    /\ cons_pc = "done"
    /\ Len(input_groups) = 2
    /\ Len(consolidated) = 1
    /\ consolidated[1].duration = 3
    /\ input_groups[1].duration = 1
    /\ input_groups[1].key_terms = <<"a">>
    /\ input_groups[2].key_terms = <<"b">>
    /\ config.min_clip_duration = 3
    /\ config.target_clip_duration = 2

(***************************************************************************)
(* Phrase segmenter: which strategies run, and what the phrases are made   *)
(* of.                                                                     *)
(***************************************************************************)
\* positions i, not the last, whose word ends a clause
PunctPositions ==
    {i \in 1..(Len(aligned_words) - 1) :
        endswith_any(rstrip(aligned_words[i].word), SentencePunctuation)}

\* number of phrases of the gap-based and of the punctuation-based result
GapCount == Cardinality(GapPositions) + 1
PunctCount == Cardinality(PunctPositions) + 1

(* C23: parse_into_phrases tries its strategies in the fixed order
   gap-based, punctuation-based, structural-marker-based, and runs a later
   strategy only if the result in hand has fewer than 3 phrases: a gap-based
   result of 3 or more phrases is returned as is, and the marker split runs
   only when both the gap-based and the punctuation-based results have fewer
   than 3 phrases. *)
C23_FallbackOrder ==
    /\ parse_log \in {<<>>, <<"gap">>, <<"gap", "punctuation">>,
                      <<"gap", "punctuation", "markers">>}
    /\ (parse_pc = "done" /\ aligned_words # <<>>) =>
          /\ parse_log # <<>>
          /\ GapCount >= 3 =>
                /\ parse_log = <<"gap">>
                /\ Len(parse_result) = GapCount
          /\ Len(parse_log) >= 2 <=> GapCount < 3
          /\ Len(parse_log) = 3 <=> (GapCount < 3 /\ PunctCount < 3)
          /\ Len(parse_log) = 2 => Len(parse_result) = PunctCount

\* the punctuation-based result had 3 phrases, so the marker split did not run
C23_Witness ==
    /\ parse_pc = "done"
    /\ parse_log = <<"gap", "punctuation">>
    /\ GapCount = 2
    /\ Len(parse_result) = 3
    /\ \E i \in 1..Len(aligned_words) : is_marker(aligned_words[i])

\* the elements of a set of numbers in increasing order
RECURSIVE Ascending(_)
Ascending(S) ==
    IF S = {} THEN <<>>
    ELSE LET m == CHOOSE x \in S : \A y \in S : x <= y
         IN  <<m>> \o Ascending(S \ {m})

\* the texts of words lo..hi joined by single spaces
RECURSIVE RunText(_, _)
RunText(lo, hi) ==
    IF lo = hi THEN aligned_words[lo].word
    ELSE aligned_words[lo].word \o <<" ">> \o RunText(lo + 1, hi)

\* the phrases of the runs of words that end at the positions ends (increasing)
RunPhrases(ends) ==
    [j \in 1..Len(ends) |->
        LET lo == IF j = 1 THEN 1 ELSE ends[j - 1] + 1
        IN  [text   |-> RunText(lo, ends[j]),
             startS |-> aligned_words[lo].startS,
             endS   |-> aligned_words[ends[j]].endS]]

(* C28: whichever strategy produces the result of parse_into_phrases, the
   returned phrases are consecutive runs of the input words that together
   contain every input word exactly once in the original order, and each
   phrase has start = its first word's start, end = its last word's end and
   text = its words joined by single spaces. *)
C28_PhrasesPartitionWords ==
    (parse_pc = "done" /\ aligned_words # <<>>) =>
        \E cuts \in SUBSET (1..(Len(aligned_words) - 1)) :
            parse_result = RunPhrases(Ascending(cuts \cup {Len(aligned_words)}))

\* a result of the marker split with a phrase of two words
C28_Witness ==
    /\ parse_pc = "done"
    /\ parse_log = <<"gap", "punctuation", "markers">>
    /\ Len(parse_result) = 2
    /\ Len(aligned_words) = 3
    /\ is_marker(aligned_words[2])

(***************************************************************************)
(* Visual ranker: the MMR pass and the thumbnail downloads.                *)
(***************************************************************************)
\* rank_media went through the downloads and the MMR pass
Ranked == rank_pc = "done" /\ images # <<>>

\* position in valid_candidates of the candidate returned at rank r
ValidPosOf(r) ==
    CHOOSE k \in 1..Len(valid_candidates) :
        rank_candidates[valid_candidates[k]].url = rank_returned[r].url

\* positions in valid_candidates picked before the i-th pick
PickedBefore(i) == {ValidPosOf(j) : j \in 1..(i - 1)}

\* 10 x (lambda x relevance(c, fact_i) - (1 - lambda) x max similarity to the
\* picks made before the i-th), c being at position k of valid_candidates
MarginalRelevance(k, i) ==
    LET shows(p) == rank_candidates[valid_candidates[p]].thumbnail
        sims == {ImageSimilarity(shows(k), shows(p)) : p \in PickedBefore(i)}
        max_similarity ==
            IF sims = {} THEN 0 ELSE CHOOSE x \in sims : \A y \in sims : y <= x
    IN  LambdaTenths * Relevance(shows(k), key_facts[i]) - (10 - LambdaTenths) * max_similarity

\* number of picks of the per-key-fact pass
PickCount == Min(Len(key_facts), Len(valid_candidates))

(* C24: in _calculate_mmr_scores, for i = 1..min(number of key facts, number
   of candidates), the i-th ranked candidate is the not-yet-selected
   candidate with the maximal value of lambda x relevance(c, fact_i) -
   (1 - lambda) x max over already selected s of similarity(c, s), that
   maximum being 0 when nothing is selected yet; the first candidate in
   iteration order wins ties; no candidate is selected twice. *)
C24_MMRSelection ==
    Ranked =>
        /\ \A i \in 1..PickCount :
              /\ \E k \in 1..Len(valid_candidates) :
                    rank_candidates[valid_candidates[k]].url = rank_returned[i].url
              /\ ValidPosOf(i) \notin PickedBefore(i)
              /\ \A k \in (1..Len(valid_candidates)) \ PickedBefore(i) :
                    /\ MarginalRelevance(k, i) <= MarginalRelevance(ValidPosOf(i), i)
                    /\ k < ValidPosOf(i) =>
                          MarginalRelevance(k, i) < MarginalRelevance(ValidPosOf(i), i)
        /\ \A i, j \in 1..Len(rank_returned) :
              i # j => rank_returned[i].url # rank_returned[j].url

\* the second pick is a less relevant candidate chosen for diversity, ahead of
\* a candidate that shows what the second fact is about
C24_Witness ==
    /\ Ranked
    /\ Len(key_facts) = 2
    /\ Len(valid_candidates) = 3
    /\ rank_returned[1].thumbnail = key_facts[2]
    /\ rank_returned[2].thumbnail # key_facts[2]
    /\ rank_returned[3].thumbnail = key_facts[2]

(* C25: in the list returned by rank_media the candidates not picked by the
   per-key-fact MMR pass appear after the picked ones in their original
   order in the input pool, for every completion order of the parallel
   thumbnail downloads. *)
C25_UnpickedInPoolOrder ==
    Ranked =>
        \A i, j \in (PickCount + 1)..Len(rank_returned) :
            i < j => \E a, b \in 1..Len(rank_candidates) :
                        /\ rank_candidates[a].url = rank_returned[i].url
                        /\ rank_candidates[b].url = rank_returned[j].url
                        /\ a < b

(* C29: for every completion order of the worker threads in
   _download_thumbnails_parallel, each input candidate ends up in exactly
   one of valid_candidates and failed_candidates (none lost, none in both),
   images and valid_candidates have the same length, and images[i] is the
   thumbnail that was downloaded for valid_candidates[i]. *)
C29_DownloadsPartitionCandidates ==
    /\ Len(images) = Len(valid_candidates)
    /\ \A i \in 1..Len(images) : images[i] = rank_candidates[valid_candidates[i]].thumbnail
    /\ Range(valid_candidates) \cap Range(failed_candidates) = {}
    /\ Len(valid_candidates) = Cardinality(Range(valid_candidates))
    /\ Len(failed_candidates) = Cardinality(Range(failed_candidates))
    /\ rank_pc = "downloading" =>
          Range(valid_candidates) \cup Range(failed_candidates) \cup pending
              = 1..Len(rank_candidates)
    /\ (rank_pc = "downloading" /\ pending = {}) =>
          Range(valid_candidates) \cup Range(failed_candidates) = 1..Len(rank_candidates)

\* three downloads completed out of pool order, one of them failed
C29_Witness ==
    /\ rank_pc = "downloading"
    /\ pending = {}
    /\ valid_candidates = <<3, 1>>
    /\ failed_candidates = <<2>>
    /\ images[1] # images[2]

(***************************************************************************)
(* Shot-list assembler: clipping to the window and re-basing.              *)
(***************************************************************************)
\* absolute start and end of a matched segment, in either key format
SegmentStartOf(g) == IF "startS" \in DOMAIN g THEN g.startS ELSE g.start_time
SegmentEndOf(g) == IF "endS" \in DOMAIN g THEN g.endS ELSE g.end_time

IsFiller(shot) == shot.lyrics_match = <<"[Instrumental]">>

\* the matched segments with this group_id
SegmentsWithId(id) ==
    {k \in 1..Len(matched_groups) : matched_groups[k].group_id = id}

(* C27: every non-filler shot returned by build_synchronized_shot_list comes
   from a matched segment with start < segment_end and end > segment_start,
   and has start_time = max(start, segment_start) - segment_start and
   end_time = min(end, segment_end) - segment_start; hence
   0 <= start_time < end_time <= segment_end - segment_start and
   duration = end_time - start_time for every shot, and no segment lying
   entirely outside the window produces a shot. *)
C27_ShotsClippedToWindow ==
    shot_pc = "done" =>
        /\ \A j \in 1..Len(shots) :
              /\ 0 <= shots[j].start_time
              /\ shots[j].start_time < shots[j].end_time
              /\ shots[j].end_time <= segment_end - segment_start
              /\ shots[j].duration = shots[j].end_time - shots[j].start_time
              /\ ~IsFiller(shots[j]) =>
                    \E k \in SegmentsWithId(shots[j].phrase_group_id) :
                        LET g == matched_groups[k]
                        IN  /\ g.matched_clip.present
                            /\ SegmentStartOf(g) < segment_end
                            /\ SegmentEndOf(g) > segment_start
                            /\ shots[j].start_time
                                  = (IF SegmentStartOf(g) > segment_start
                                     THEN SegmentStartOf(g) ELSE segment_start) - segment_start
                            /\ shots[j].end_time
                                  = (IF SegmentEndOf(g) < segment_end
                                     THEN SegmentEndOf(g) ELSE segment_end) - segment_start
        /\ \A k \in 1..Len(matched_groups) :
              (SegmentEndOf(matched_groups[k]) <= segment_start
                  \/ SegmentStartOf(matched_groups[k]) >= segment_end) =>
                 \A j \in 1..Len(shots) :
                     shots[j].phrase_group_id # matched_groups[k].group_id

\* a segment cut at the window start, and a matched segment that begins
\* where the window ends and gets no shot
C27_Witness ==
    /\ shot_pc = "done"
    /\ Len(matched_groups) = 2
    /\ Len(shots) = 1
    /\ segment_start = 1
    /\ SegmentStartOf(matched_groups[1]) = 0
    /\ shots[1].start_time = 0
    /\ shots[1].duration = 1
    /\ SegmentStartOf(matched_groups[2]) = segment_end
    /\ matched_groups[2].matched_clip.present

(***************************************************************************)
(* Long-group splitter (times in seconds, as fractions num/den; a text is  *)
(* the sequence of its whitespace-separated words).                        *)
(***************************************************************************)
\* line 492: max_duration=4.0
SplitCap == 4

\* line 171: target_chunk_duration = 3.0
TargetChunkDuration == 3

\* line 182
ChunkPunctuation == {",", ".", "!", "?", ";"}

SplitWordTexts == {<<"l", "a">>, <<"o", "h", ",">>}

\* a phrase within the cap, just above it, well above it
SplitDurations == {SplitCap, SplitCap + 1, 2 * SplitCap}

\* a phrase has at least one word
SplitShapes ==
    [words : SeqsUpTo(SplitWordTexts, MaxSplitWords) \ {<<>>}, dur : SplitDurations]

RECURSIVE SplitStart(_, _)
SplitStart(sh, i) == IF i = 1 THEN 0 ELSE SplitStart(sh, i - 1) + sh[i - 1].dur

Whole(t) == [num |-> t, den |-> 1]

MakeSplitPhrase(sh, i) ==
    [text   |-> sh[i].words,
     startS |-> Whole(SplitStart(sh, i)),
     endS   |-> Whole(SplitStart(sh, i) + sh[i].dur)]

\* a <= b and a = b on fractions with positive denominators
FracLe(a, b) == a.num * b.den <= b.num * a.den
FracEq(a, b) == a.num * b.den = b.num * a.den

\* lines 168-173: words_per_chunk for a phrase of n words lasting duration
WordsPerChunk(n, duration) ==
    LET words_per_chunk == IF n > 0 /\ duration > 0
                           THEN (TargetChunkDuration * n) \div duration
                           ELSE n
    IN  Max(1, Min(words_per_chunk, n))

\* lines 176-200: the chunks of the words from position i on
RECURSIVE ChunkLoop(_, _, _, _, _)
ChunkLoop(words, i, chunks, current_chunk, words_per_chunk) ==
    IF i > Len(words)
    THEN IF current_chunk = <<>> THEN chunks
         ELSE IF chunks # <<>>
         THEN [chunks EXCEPT ![Len(chunks)] = @ \o current_chunk]
         ELSE <<current_chunk>>
    ELSE LET cur == Append(current_chunk, words[i])
             has_punctuation == endswith_any(rstrip(words[i]), ChunkPunctuation)
             is_chunk_full == Len(cur) >= words_per_chunk
             is_last_word == i = Len(words)
         IN  IF (has_punctuation /\ is_chunk_full) \/ is_last_word
             THEN ChunkLoop(words, i + 1, Append(chunks, cur), <<>>, words_per_chunk)
             ELSE IF ~has_punctuation /\ 2 * Len(cur) >= 3 * words_per_chunk
             THEN ChunkLoop(words, i + 1, Append(chunks, cur), <<>>, words_per_chunk)
             ELSE ChunkLoop(words, i + 1, chunks, cur, words_per_chunk)

\* lines 203-213: the phrases of the chunks from the k-th on; words_before
\* words precede it, time_per_word is duration / n
RECURSIVE ChunkPhrases(_, _, _, _)
ChunkPhrases(chunks, k, words_before, phrase) ==
    IF k > Len(chunks) THEN <<>>
    ELSE LET n == Len(phrase.text)
             duration == phrase.endS.num - phrase.startS.num
             current_time == [num |-> phrase.startS.num * n + words_before * duration,
                              den |-> n]
             chunk_end == [num |-> current_time.num + Len(chunks[k]) * duration, den |-> n]
         IN  <<[text   |-> chunks[k],
                startS |-> current_time,
                endS   |-> IF FracLe(chunk_end, phrase.endS) THEN chunk_end ELSE phrase.endS]>>
                 \o ChunkPhrases(chunks, k + 1, words_before + Len(chunks[k]), phrase)

\* lines 153-215
RECURSIVE _split_long_groups(_, _)
_split_long_groups(phrase_list, max_duration) ==
    IF phrase_list = <<>> THEN <<>>
    ELSE LET phrase == Head(phrase_list)
             duration == phrase.endS.num - phrase.startS.num
         IN  (IF duration <= max_duration
              THEN <<phrase>>
              ELSE ChunkPhrases(ChunkLoop(phrase.text, 1, <<>>, <<>>,
                                          WordsPerChunk(Len(phrase.text), duration)),
                                1, 0, phrase))
                 \o _split_long_groups(Tail(phrase_list), max_duration)

InitSplit ==
    /\ \E n \in 0..MaxSplitPhrases : \E sh \in [1..n -> SplitShapes] :
          sl_phrases = [i \in 1..n |-> MakeSplitPhrase(sh, i)]
    /\ sl_result = <<>>
    /\ sl_pc = "call"
    /\ ConsIdle
    /\ ParseIdle
    /\ GrpIdle
    /\ ShotIdle
    /\ MatchIdle
    /\ RankIdle
    /\ ClipMatchIdle
    /\ PlanIdle
    /\ FetchIdle

\* line 492: self._split_long_groups(merged_phrases, max_duration=4.0)
SplitCall ==
    /\ sl_pc = "call"
    /\ sl_result' = _split_long_groups(sl_phrases, SplitCap)
    /\ sl_pc' = "done"
    /\ UNCHANGED sl_phrases
    /\ UNCHANGED nonSplitVars

NextSplit == SplitCall

SpecSplit == InitSplit /\ [][NextSplit]_vars

\* the texts of sl_result[lo..hi], joined
RECURSIVE JoinedTexts(_, _)
JoinedTexts(lo, hi) ==
    IF lo > hi THEN <<>> ELSE sl_result[lo].text \o JoinedTexts(lo + 1, hi)

\* sl_result[lo..hi] are two or more contiguous sub-chunks of the phrase
SubChunksOf(phrase, lo, hi) ==
    /\ hi > lo
    /\ JoinedTexts(lo, hi) = phrase.text
    /\ FracEq(sl_result[lo].startS, phrase.startS)
    /\ FracEq(sl_result[hi].endS, phrase.endS)
    /\ \A k \in lo..(hi - 1) : FracEq(sl_result[k].endS, sl_result[k + 1].startS)

\* the input phrases from the i-th on account for sl_result from position pos on
RECURSIVE SplitCovers(_, _)
SplitCovers(i, pos) ==
    IF i > Len(sl_phrases) THEN pos = Len(sl_result) + 1
    ELSE IF sl_phrases[i].endS.num - sl_phrases[i].startS.num <= SplitCap
    THEN /\ pos <= Len(sl_result)
         /\ sl_result[pos] = sl_phrases[i]
         /\ SplitCovers(i + 1, pos + 1)
    ELSE \E hi \in (pos + 1)..Len(sl_result) :
            /\ SubChunksOf(sl_phrases[i], pos, hi)
            /\ SplitCovers(i + 1, hi + 1)

(* C26: _split_long_groups returns every group whose duration is at most the
   cap unchanged and in place, and replaces every group whose duration
   exceeds the cap by two or more consecutive sub-chunks whose texts
   concatenate to the group's text and whose time intervals are contiguous,
   starting at the group's start and ending at the group's end. *)
C26_LongGroupsSplit ==
    sl_pc = "done" => SplitCovers(1, 1)

(***************************************************************************)
(* Synchronized plan: the recent-use window across the clips.              *)
(***************************************************************************)
\* create_synchronized_plan matches one more consolidated clip against a
\* non-empty media pool
PlanClipMatched ==
    /\ plan_pc = "clips"
    /\ plan_i' = plan_i + 1
    /\ available_media # <<>>

\* the url selected by the latest match_videos_to_groups call of the plan
LatestSelected == Last(plan_calls').selected[1]

\* url is the first candidate with the highest final score for some
\* embedding similarities, the penalties being those of the window
BestUnderWindow(url, key_terms, window) ==
    \E base \in [1..Len(available_media) -> BaseScores] :
        LET score(i) == FinalScore(key_terms, available_media[i], base[i], keyword_boost, window)
        IN  \E b \in 1..Len(available_media) :
                /\ available_media[b].url = url
                /\ \A i \in 1..Len(available_media) : score(i) <= score(b)
                /\ \A i \in 1..(b - 1) : score(i) < score(b)

(* C30: in create_synchronized_plan with clip consolidation enabled, each
   consolidated clip is matched in its own match_videos_to_groups call on
   one shared SemanticMatcher, so the same-topic exemption never applies:
   the url selected for every clip, also for a clip whose topic label equals
   the previous clip's, is appended to the recent-use window, and the window
   built by the earlier clips is what penalizes the candidates of the later
   ones. *)
C30_PlanTracksEveryClip ==
    [][PlanClipMatched =>
          /\ Len(plan_calls') = Len(plan_calls) + 1
          /\ Last(plan_calls').groups = <<plan_i + 1>>
          /\ keyword_boost' = keyword_boost
          /\ recent_videos' = KeepLast(recent_videos \o <<LatestSelected>>)
          /\ BestUnderWindow(LatestSelected,
                             ClipKeyTerms(consolidated[plan_i + 1], phrase_groups),
                             recent_videos)]_vars

\* three clips with the same topic label, each selection tracked, the second
\* one pushed to the other video by the window
C30_Witness ==
    /\ sync_config.enabled
    /\ plan_outcome = "returned"
    /\ Len(consolidated) = 3
    /\ consolidated[1].topics = consolidated[2].topics
    /\ consolidated[2].topics = consolidated[3].topics
    /\ Len(plan_calls) = 3
    /\ recent_videos = [k \in 1..3 |-> plan_calls[k].selected[1]]
    /\ recent_videos[1] # recent_videos[2]

====
